---- MODULE Spec2Model ----
(***************************************************************************)
(* Action-execution safety pipeline of Jarvis: the Safety Engine            *)
(* (core/system/safety.py), the Action Router (core/system/action_router.py)*)
(* the sandboxed Tools (core/tools.py), the Tag Stream Filter              *)
(* (core/orchestrator.py), the directive parser parse_action_tag and the    *)
(* application registry (core/system/app_registry.py).                      *)
(*                                                                          *)
(* Text is modelled as a sequence of one-character strings wherever the     *)
(* code looks inside it (the stream filter, the directive parser, the       *)
(* registry lookup).  Shell commands are the                                *)
(* concrete command strings of the test-suite; the outcome of re.search on  *)
(* them is tabulated in MatchingRules / AllowlistMatch / BlocklistMatch.    *)
(***************************************************************************)
EXTENDS Integers, Sequences, FiniteSets, TLC

(***************************************************************************)
(* Bounds of the model                                                      *)
(***************************************************************************)
MaxCalls == 2        \* router / tools calls in one behaviour of Spec

(***************************************************************************)
(* RiskLevel and ActionType (core/system/actions.py)                        *)
(***************************************************************************)
LOW == "low"
MEDIUM == "medium"
HIGH == "high"
CRITICAL == "critical"
RiskLevel == {LOW, MEDIUM, HIGH, CRITICAL}

LAUNCH_APP == "launch_app"
OPEN_URL == "open_url"
SHELL_COMMAND == "shell_command"
FILE_READ == "file_read"
FILE_WRITE == "file_write"
FILE_LIST == "file_list"
SYSTEM_INFO == "system_info"
NOTIFICATION == "notification"
ActionType == {LAUNCH_APP, OPEN_URL, SHELL_COMMAND, FILE_READ, FILE_WRITE,
               FILE_LIST, SYSTEM_INFO, NOTIFICATION}

(***************************************************************************)
(* RISK_PATTERNS, in table order (safety.py).                               *)
(***************************************************************************)
RP(p, r, d) == [pattern |-> p, risk |-> r, description |-> d]

RISK_PATTERNS ==
  << RP("format\\s+[a-z]:", CRITICAL, "Disk format"),
     RP("diskpart", CRITICAL, "Disk partitioning"),
     RP("bcdedit", CRITICAL, "Boot configuration edit"),
     RP("cipher\\s+/w:", CRITICAL, "Secure disk wipe"),
     RP("sfc\\s+/scannow", HIGH, "System file checker"),
     RP("remove-item\\s+.*-recurse", HIGH, "Recursive file deletion"),
     RP("rm\\s+-rf", HIGH, "Recursive force delete"),
     RP("del\\s+/[sS]", HIGH, "Recursive delete"),
     RP("reg\\s+delete", HIGH, "Registry deletion"),
     RP("reg\\s+add", HIGH, "Registry modification"),
     RP("shutdown\\s+/[sSpP]", HIGH, "System shutdown/restart"),
     RP("stop-service", HIGH, "Service stop"),
     RP("Set-ExecutionPolicy", HIGH, "Execution policy change"),
     RP("netsh\\s+advfirewall", HIGH, "Firewall modification"),
     RP("(?:invoke-webrequest|curl|wget).*\\|\\s*(?:iex|invoke-expression)",
        CRITICAL, "Web request piped to execute"),
     RP("invoke-webrequest|curl|wget", MEDIUM, "Network download"),
     RP("Invoke-Expression|iex", HIGH, "Dynamic code execution"),
     RP("-(enc|encodedcommand)\\b", HIGH, "Encoded PowerShell command"),
     RP("wsl\\b", HIGH, "WSL Subsystem execution"),
     RP("powershell.*-ep\\s+bypass", HIGH, "PowerShell execution policy bypass"),
     RP("(certutil|bitsadmin|mshta|wmic|cscript|wscript)\\b", HIGH,
        "Windows LOLBin execution"),
     RP("stop-process|taskkill", MEDIUM, "Process termination"),
     RP("set-itemproperty", MEDIUM, "Property modification"),
     RP("new-service", MEDIUM, "Service creation"),
     RP("runas\\s*/", HIGH, "Privilege escalation"),
     RP("net\\s+user\\s+\\S+\\s+\\S+\\s*/add", HIGH, "User account creation") >>

(***************************************************************************)
(* The commands the model submits, and what re.search / `in` answer on      *)
(* them: the indices of the RISK_PATTERNS entries whose pattern matches     *)
(* (case-insensitively), and the configured allowlist / blocklist entries.  *)
(***************************************************************************)
Commands == {"format c:", "shutdown /s", "echo hello",
             "curl https://example.com", "evil_command --force"}

MatchingRules(command) ==
  CASE command = "format c:" -> {1}
    [] command = "shutdown /s" -> {11}
    [] command = "curl https://example.com" -> {16}
    [] command = "curl http://x | iex" -> {15, 16, 17}
    [] command = "wsl -- echo hello" -> {19}
    [] command = "wsl -- format c:" -> {1, 19}
    [] command = "curl http://x; iex $y" -> {16, 17}
    [] command = "taskkill /im x; wsl ls" -> {19, 22}
    [] command = "Shutdown /S" -> {11}
    [] command = "wsl -- shutdown /s" -> {11, 19}
    [] OTHER -> {}

\* the commands of [ACTION]shell: ...[/ACTION] directives, and those handed to
\* Tools.execute_terminal_command
DirectiveCommands == {"format c:", "shutdown /s", "echo hello"}
ToolCommands == {"format c:", "echo hello"}

AllowPatterns == {"shutdown"}
BlockStrings == {"evil_command"}

\* the commands and the list entries the risk assessment is exercised with
AssessCommands ==
  {"format c:", "shutdown /s", "echo hello", "curl https://example.com",
   "evil_command --force", "curl http://x | iex", "wsl -- format c:",
   "curl http://x; iex $y", "taskkill /im x; wsl ls", "EVIL_COMMAND --force",
   "Shutdown /S"}

AssessAllowPatterns == {"shutdown", "evil"}
AssessBlockStrings == {"evil_command", "Shutdown"}

\* re.search(pattern, cmd_lower, re.IGNORECASE) for an allowlist pattern
AllowlistMatch(pattern, command) ==
  << pattern, command >> \in
     { << "shutdown", "shutdown /s" >>, << "shutdown", "Shutdown /S" >>,
       << "evil", "evil_command --force" >>,
       << "evil", "EVIL_COMMAND --force" >> }

\* blocked.lower() in cmd_lower
BlocklistMatch(blocked, command) ==
  << blocked, command >> \in
     { << "evil_command", "evil_command --force" >>,
       << "evil_command", "EVIL_COMMAND --force" >>,
       << "Shutdown", "shutdown /s" >>, << "Shutdown", "Shutdown /S" >> }


\* the reason assess_command gives for a blocklist hit, f"Blocklisted: {blocked}"
BlocklistedDesc(blocked) ==
  CASE blocked = "evil_command" -> "Blocklisted: evil_command"
    [] blocked = "Shutdown" -> "Blocklisted: Shutdown"
    [] OTHER -> "Blocklisted"

(***************************************************************************)
(* State                                                                    *)
(***************************************************************************)
VARIABLES
  blocklist,             \* SafetyEngine._blocklist
  allowlist,             \* SafetyEngine._allowlist
  audit_log,             \* SafetyEngine._audit_log, the in-memory trail
  audit_file,            \* the records of logs/audit.jsonl
  execution_timestamps,  \* SafetyEngine._execution_timestamps
  now,                   \* time.time(), in seconds
  confirm_callback,      \* ActionRouter._confirm_callback is registered
  backend_log,           \* the calls received by the SystemBackend
  confirm_log,           \* the calls received by the confirmation callback
  ncalls,                \* router / tools / safety calls made so far
  last,                  \* the latest call: its inputs, effects and result
  rate_history,          \* every should_block call so far: time and answer
  stream,                \* the streamed response, as produced by the model
  pos,                   \* characters of stream fed to the filter so far
  filt,                  \* the _TagStreamFilter instance of the response
  display,               \* everything handed to the display callback
  flushed,               \* flush() has been called
  midmarker,             \* some fragment so far ended inside a marker
  dispatched,            \* the directives and commands taken for execution
  directive,             \* the body of one [ACTION] directive
  parsed,                \* what parse_action_tag returned for it
  handled,               \* how _process_with_llm dealt with the directive
  query,                 \* the name handed to AppRegistry.resolve
  resolved,              \* what resolve returned for it
  registry,              \* the entries _load read from the registry file
  logged,                \* every entry appended to the trail so far, in order
  thread,                \* each command thread: where it is in its call
  confirm_event,         \* main.py confirm_event: the Event is set
  confirm_result,        \* main.py confirm_result["approved"]
  dialogs,               \* confirm_request signals queued for the UI thread
  delivered,             \* the decisions the UI has delivered, by request
  orch                   \* the Orchestrator: its modes and the request it runs

routerVars == << blocklist, allowlist, audit_log, audit_file,
                 execution_timestamps, now, confirm_callback, backend_log,
                 confirm_log, ncalls, last, rate_history >>

filterVars == << stream, pos, filt, display, flushed, midmarker, dispatched >>

parseVars == << directive, parsed, handled >>

lookupVars == << query, resolved, registry >>

threadVars == << logged, thread, confirm_event, confirm_result, dialogs,
                 delivered >>

orchVars == << orch >>

vars == << blocklist, allowlist, audit_log, audit_file, execution_timestamps,
           now, confirm_callback, backend_log, confirm_log, ncalls, last,
           rate_history, stream, pos, filt, display, flushed, midmarker,
           dispatched, directive, parsed, handled, query, resolved, registry,
           logged, thread, confirm_event, confirm_result, dialogs, delivered,
           orch >>

(***************************************************************************)
(* SafetyEngine (safety.py)                                                 *)
(***************************************************************************)
max_audit == 200
RATE_WINDOW == 10
RATE_LIMIT == 5

\* a ranking that puts High above Critical
risk_rank_HighOverCritical(level) ==
  CASE level = LOW -> 0
    [] level = MEDIUM -> 1
    [] level = HIGH -> 3
    [] level = CRITICAL -> 2
    [] OTHER -> 0

risk_rank(level) ==
  CASE level = LOW -> 0
    [] level = MEDIUM -> 1
    [] level = HIGH -> 2
    [] level = CRITICAL -> 3
    [] OTHER -> 0

\* the loop over RISK_PATTERNS, given the indices of the rules whose pattern
\* matches the command: rule i replaces the running result only when its rank
\* is strictly higher
RECURSIVE HighestMatch(_, _, _)
HighestMatch(i, matching, highest) ==
  IF i > Len(RISK_PATTERNS) THEN highest
  ELSE IF i \in matching
          /\ risk_rank(RISK_PATTERNS[i].risk) > risk_rank(highest.risk)
  THEN HighestMatch(i + 1, matching,
                    [risk |-> RISK_PATTERNS[i].risk,
                     desc |-> RISK_PATTERNS[i].description])
  ELSE HighestMatch(i + 1, matching, highest)

\* index of the first blocklist entry contained in the command, 0 if none
FirstBlocked(command) ==
  LET hits == {i \in 1..Len(blocklist) : BlocklistMatch(blocklist[i], command)}
  IN IF hits = {} THEN 0 ELSE CHOOSE i \in hits : \A j \in hits : i <= j

\* an assessment that lets the rule table overrule the allowlist
assess_command_RulesFirst(command) ==
  LET byRules == HighestMatch(1, MatchingRules(command),
                              [risk |-> LOW, desc |-> "No risk patterns matched"])
  IN IF byRules.risk # LOW THEN byRules
     ELSE IF \E i \in 1..Len(allowlist) : AllowlistMatch(allowlist[i], command)
     THEN [risk |-> LOW, desc |-> "Allowlisted"]
     ELSE IF FirstBlocked(command) # 0
     THEN [risk |-> CRITICAL,
           desc |-> BlocklistedDesc(blocklist[FirstBlocked(command)])]
     ELSE byRules

assess_command(command) ==
  IF \E i \in 1..Len(allowlist) : AllowlistMatch(allowlist[i], command)
  THEN [risk |-> LOW, desc |-> "Allowlisted"]
  ELSE IF FirstBlocked(command) # 0
  THEN [risk |-> CRITICAL,
        desc |-> BlocklistedDesc(blocklist[FirstBlocked(command)])]
  ELSE HighestMatch(1, MatchingRules(command),
                    [risk |-> LOW, desc |-> "No risk patterns matched"])

is_dangerous(command) == assess_command(command).risk \in {HIGH, CRITICAL}

should_confirm(command) == assess_command(command).risk \in {HIGH, CRITICAL}

\* a plausible slip: a timestamp exactly one window old is still counted
RecentTimestamps_Inclusive(ts, t) ==
  SelectSeq(ts, LAMBDA x : t - x <= RATE_WINDOW)

\* the timestamps should_block keeps: those younger than the window
RecentTimestamps(ts, t) == SelectSeq(ts, LAMBDA x : t - x < RATE_WINDOW)

\* should_block at time t: the answer and the timestamps it leaves behind
should_block(command, ts, t) ==
  LET kept == RecentTimestamps(ts, t)
  IN IF Len(kept) >= RATE_LIMIT
     THEN [block |-> TRUE, reason |-> "Blocked: Rate limit exceeded",
           timestamps |-> kept]
     ELSE LET ra == assess_command(command)
          IN [block |-> ra.risk = CRITICAL,
              reason |-> ra.desc,
              timestamps |-> Append(kept, t)]

assess_action(action_type) ==
  CASE action_type = LAUNCH_APP -> LOW
    [] action_type = OPEN_URL -> LOW
    [] action_type = SHELL_COMMAND -> MEDIUM
    [] action_type = FILE_READ -> LOW
    [] action_type = FILE_WRITE -> MEDIUM
    [] action_type = FILE_LIST -> LOW
    [] action_type = SYSTEM_INFO -> LOW
    [] action_type = NOTIFICATION -> LOW
    [] OTHER -> MEDIUM

AuditEntry(action_type, target, risk, outcome, from_llm) ==
  [timestamp |-> now, action_type |-> action_type, target |-> target,
   risk |-> risk, outcome |-> outcome, from_llm |-> from_llm]

\* a trail that fills up and then keeps its oldest entries
log_action_KeepsOldest(log, file, entry, io_ok) ==
  LET appended == Append(log, entry)
  IN [log |-> IF Len(appended) > max_audit
              THEN SubSeq(appended, 1, max_audit)
              ELSE appended,
      file |-> IF io_ok THEN Append(file, entry) ELSE file]

\* a trail that records an entry only once it is on disk
log_action_DropsOnFailure(log, file, entry, io_ok) ==
  LET appended == Append(log, entry)
  IN IF io_ok
     THEN [log |-> IF Len(appended) > max_audit
                   THEN SubSeq(appended, Len(appended) - max_audit + 1, Len(appended))
                   ELSE appended,
           file |-> Append(file, entry)]
     ELSE [log |-> log, file |-> file]

\* log_action on the trail `log` and the durable file `file`; io_ok tells
\* whether the append to logs/audit.jsonl succeeds (a failure is caught)
log_action(log, file, entry, io_ok) ==
  LET appended == Append(log, entry)
  IN [log |-> IF Len(appended) > max_audit
              THEN SubSeq(appended, Len(appended) - max_audit + 1, Len(appended))
              ELSE appended,
      file |-> IF io_ok THEN Append(file, entry) ELSE file]

get_audit_log(limit) ==
  IF limit = 0 THEN audit_log      \* list[-0:] is the whole list
  ELSE IF limit >= Len(audit_log) THEN audit_log
  ELSE SubSeq(audit_log, Len(audit_log) - limit + 1, Len(audit_log))


(***************************************************************************)
(* SystemBackend (backend.py, windows.py): what an operation returns for    *)
(* each way the operating system can answer.                                *)
(***************************************************************************)
ShellOutcomes == {"success", "failure", "timeout"}
BackendOutcomes == {"success", "failure"}

Result(success, message, error, detail, command, action_type, risk_level, timed_out) ==
  [success |-> success, message |-> message, error |-> error,
   detail |-> detail, command |-> command, action_type |-> action_type,
   risk_level |-> risk_level, timed_out |-> timed_out]

NoResult == Result(FALSE, "", "", "", "", "", "", FALSE)

\* a backend that reports a timeout as an ordinary failure
run_shell_TimeoutUnflagged(command, outcome) ==
  CASE outcome = "success" ->
         Result(TRUE, "Command executed.", "", "", command, SHELL_COMMAND,
                MEDIUM, FALSE)
    [] OTHER ->
         Result(FALSE, "Error: stderr", "stderr", "", command, SHELL_COMMAND,
                MEDIUM, FALSE)

\* run_shell: what it returns when the command exits with status 0 and no
\* error output, exits otherwise, or is still running when the timeout expires
run_shell(command, outcome) ==
  CASE outcome = "success" ->
         Result(TRUE, "Command executed.", "", "", command, SHELL_COMMAND,
                MEDIUM, FALSE)
    [] outcome = "failure" ->
         Result(FALSE, "Error: stderr", "stderr", "", command, SHELL_COMMAND,
                MEDIUM, FALSE)
    [] OTHER ->
         Result(FALSE, "Command timed out", "TimeoutExpired", "", command,
                SHELL_COMMAND, LOW, TRUE)

\* a backend that lets the operating system's exception through: the caller
\* is left without a result
backend_op_Uncaught(op, target, outcome) ==
  IF outcome = "success"
  THEN Result(TRUE, "done", "", "", "", op, LOW, FALSE)
  ELSE NoResult

\* launch_app, open_url and notify return an ActionResult, also when the
\* operating system call raises (every operation catches Exception)
backend_op(op, target, outcome) ==
  IF outcome = "success"
  THEN Result(TRUE, "done", "", "", "", op, LOW, FALSE)
  ELSE Result(FALSE, "failed", "error", "", "", op, LOW, FALSE)

BackendCall(op, arg, caller) == [op |-> op, arg |-> arg, caller |-> caller]

(***************************************************************************)
(* ActionRouter (action_router.py).  A call works on an environment: the    *)
(* trail, the durable file, the backend's and the callback's call logs, and *)
(* the audit entries this call has appended.                                *)
(***************************************************************************)
Env == [log |-> audit_log, file |-> audit_file, backend |-> backend_log,
        confirm |-> confirm_log, audits |-> << >>]

Audit(env, entry, io_ok) ==
  LET r == log_action(env.log, env.file, entry, io_ok)
  IN [env EXCEPT !.log = r.log, !.file = r.file,
                 !.audits = Append(@, entry)]

\* a plausible slip: without a callback the command is let through
request_confirmation_FailOpen(env, command, answer) ==
  IF confirm_callback
  THEN [approved |-> answer,
        env |-> [env EXCEPT !.confirm =
                   Append(@, [command |-> command, answer |-> answer])]]
  ELSE [approved |-> TRUE, env |-> env]

\* _request_confirmation: the callback's answer, or deny without a callback
request_confirmation(env, command, answer) ==
  IF confirm_callback
  THEN [approved |-> answer,
        env |-> [env EXCEPT !.confirm =
                   Append(@, [command |-> command, answer |-> answer])]]
  ELSE [approved |-> FALSE, env |-> env]

\* a plausible slip: the block check is skipped
IsBlocked_Never(risk) == FALSE

\* step 1 of execute_shell: `if risk == RiskLevel.CRITICAL`
IsBlocked(risk) == risk = CRITICAL

\* a plausible slip: the confirmation is demanded for the wrong level
NeedsConfirmation_Critical(risk) == risk = CRITICAL

\* a plausible slip: the confirmation is demanded from Medium upwards
NeedsConfirmation_Medium(risk) == risk \in {MEDIUM, HIGH}

\* step 2 of execute_shell: `if risk == RiskLevel.HIGH`
NeedsConfirmation(risk) == risk = HIGH

execute_shell(env, command, from_llm, answer, outcome, io_ok) ==
  LET ra == assess_command(command)
      conf == IF NeedsConfirmation(ra.risk)
              THEN request_confirmation(env, command, answer)
              ELSE [approved |-> TRUE, env |-> env]
  IN IF IsBlocked(ra.risk)
     THEN [env |-> Audit(env, AuditEntry(SHELL_COMMAND, command, CRITICAL,
                                         "blocked", from_llm), io_ok),
           result |-> Result(FALSE, "Blocked dangerous command", ra.desc,
                             ra.desc, command, SHELL_COMMAND, CRITICAL, FALSE)]
     ELSE IF NeedsConfirmation(ra.risk) /\ ~conf.approved
     THEN [env |-> Audit(conf.env, AuditEntry(SHELL_COMMAND, command, HIGH,
                                              "denied", from_llm), io_ok),
           result |-> Result(FALSE, "Command cancelled (requires confirmation)",
                             "User denied", ra.desc, command, SHELL_COMMAND,
                             HIGH, FALSE)]
     ELSE LET result == run_shell(command, outcome)
              called == [conf.env EXCEPT !.backend =
                           Append(@, BackendCall("run_shell", command,
                                                 "execute_shell"))]
          IN [env |-> Audit(called,
                            AuditEntry(SHELL_COMMAND, command, ra.risk,
                                       IF result.success THEN "success"
                                       ELSE "failure", from_llm), io_ok),
              result |-> result]

\* a handler table with an entry for every action type
Handled_Everything == ActionType

Handled == {LAUNCH_APP, OPEN_URL, SHELL_COMMAND, SYSTEM_INFO, NOTIFICATION}

\* the handler of the request's action type: _handle_launch_app,
\* _handle_open_url, _handle_shell, _handle_system_info, _handle_notification
handle(env, request, answer, outcome, io_ok) ==
  CASE request.action_type = SHELL_COMMAND ->
         execute_shell(env, request.target, TRUE, answer, outcome, io_ok)
    [] request.action_type = SYSTEM_INFO ->
         [env |-> [env EXCEPT !.backend =
                     Append(@, BackendCall("get_system_info", "",
                                           "execute_action"))],
          result |-> IF outcome = "success"
                     THEN Result(TRUE, "System Information", "", "", "",
                                 SYSTEM_INFO, LOW, FALSE)
                     ELSE Result(FALSE, "Error getting system info", "error",
                                 "", "", SYSTEM_INFO, LOW, FALSE)]
    [] OTHER ->
         LET op == CASE request.action_type = LAUNCH_APP -> "launch_app"
                     [] request.action_type = OPEN_URL -> "open_url"
                     [] OTHER -> "notify"
         IN [env |-> [env EXCEPT !.backend =
                        Append(@, BackendCall(op, request.target,
                                              "execute_action"))],
             result |-> backend_op(op, request.target,
                                   IF outcome = "success" THEN "success"
                                   ELSE "failure")]

execute_action(env, request, answer, outcome, io_ok) ==
  LET base_risk == assess_action(request.action_type)
  IN IF request.action_type \notin Handled
     THEN [env |-> env,
           result |-> Result(FALSE, "Unsupported action type", "No handler",
                             "", "", "", LOW, FALSE)]
     ELSE LET h == handle(env, request, answer, outcome, io_ok)
          IN [env |-> Audit(h.env,
                            AuditEntry(request.action_type, request.target,
                                       IF h.result.risk_level # ""
                                       THEN h.result.risk_level
                                       ELSE base_risk,
                                       IF h.result.success THEN "success"
                                       ELSE "failure", TRUE), io_ok),
              result |-> h.result]

(***************************************************************************)
(* Tools.execute_terminal_command (tools.py)                                *)
(***************************************************************************)
execute_terminal_command(env, command, outcome) ==
  [env |-> [env EXCEPT !.backend =
              Append(@, BackendCall("run_shell", command,
                                    "execute_terminal_command"))],
   result |-> run_shell(command, outcome)]


(***************************************************************************)
(* _TagStreamFilter (orchestrator.py).  Text is a sequence of characters.   *)
(***************************************************************************)
MaxPieces == 4       \* pieces a streamed response is composed of
MaxFrag == 3         \* characters in one fragment handed to feed

OPEN_SHELL == << "[", "S", "H", "E", "L", "L", "]" >>
CLOSE_SHELL == << "[", "/", "S", "H", "E", "L", "L", "]" >>
OPEN_ACTION == << "[", "A", "C", "T", "I", "O", "N", "]" >>
CLOSE_ACTION == << "[", "/", "A", "C", "T", "I", "O", "N", "]" >>

TAGS == << << OPEN_SHELL, CLOSE_SHELL >>, << OPEN_ACTION, CLOSE_ACTION >> >>

Whitespace == {" ", "\n", "\t"}

\* s.index(sub) + 1, or 0 when sub is not in s
IndexOf(sub, s) ==
  LET at == {i \in 1..(Len(s) - Len(sub) + 1) :
               SubSeq(s, i, i + Len(sub) - 1) = sub}
  IN IF at = {} THEN 0 ELSE CHOOSE i \in at : \A j \in at : i <= j

\* sub in s
Contains(sub, s) == IndexOf(sub, s) # 0

\* s.startswith(prefix)
StartsWith(s, prefix) ==
  Len(prefix) <= Len(s) /\ SubSeq(s, 1, Len(prefix)) = prefix

\* s.strip()
RECURSIVE Strip(_)
Strip(s) ==
  IF s = << >> THEN s
  ELSE IF Head(s) \in Whitespace THEN Strip(Tail(s))
  ELSE IF s[Len(s)] \in Whitespace THEN Strip(SubSeq(s, 1, Len(s) - 1))
  ELSE s

NewFilter ==
  [buf |-> << >>, in_tag |-> FALSE, tag_type |-> << >>, close_tag |-> << >>,
   tag_buf |-> << >>, shell_commands |-> << >>, action_commands |-> << >>]

\* index in TAGS of the first pair whose opening tag is in buf, 0 if none
FirstOpenTag(buf) ==
  LET hits == {k \in 1..Len(TAGS) : Contains(TAGS[k][1], buf)}
  IN IF hits = {} THEN 0 ELSE CHOOSE k \in hits : \A j \in hits : k <= j

\* the body of feed's loop for one character: the filter afterwards and the
\* text added to display
FeedChar(f, ch) ==
  IF ~f.in_tag
  THEN LET buf == Append(f.buf, ch)
           k == FirstOpenTag(buf)
       IN IF k # 0
          THEN [f |-> [f EXCEPT !.buf = << >>, !.in_tag = TRUE,
                                !.tag_type = TAGS[k][1],
                                !.close_tag = TAGS[k][2]],
                out |-> SubSeq(buf, 1, IndexOf(TAGS[k][1], buf) - 1)]
          ELSE IF \E t \in 1..Len(TAGS) : StartsWith(TAGS[t][1], buf)
          THEN [f |-> [f EXCEPT !.buf = buf], out |-> << >>]
          ELSE [f |-> [f EXCEPT !.buf = << >>], out |-> buf]
  ELSE LET tag_buf == Append(f.tag_buf, ch)
           idx == IndexOf(f.close_tag, tag_buf)
       IN IF idx # 0
          THEN LET content == Strip(SubSeq(tag_buf, 1, idx - 1))
                   rest == SubSeq(tag_buf, idx + Len(f.close_tag), Len(tag_buf))
               IN [f |-> [f EXCEPT
                            !.shell_commands =
                               IF content # << >> /\ f.tag_type = OPEN_SHELL
                               THEN Append(@, content) ELSE @,
                            !.action_commands =
                               IF content # << >> /\ f.tag_type = OPEN_ACTION
                               THEN Append(@, content) ELSE @,
                            !.tag_buf = rest, !.in_tag = FALSE,
                            !.tag_type = << >>, !.close_tag = << >>],
                   out |-> << >>]
          ELSE [f |-> [f EXCEPT !.tag_buf = tag_buf], out |-> << >>]

\* feed(text): the filter afterwards and the display text returned
RECURSIVE feed(_, _)
feed(f, text) ==
  IF text = << >> THEN [f |-> f, out |-> << >>]
  ELSE LET one == FeedChar(f, Head(text))
           more == feed(one.f, Tail(text))
       IN [f |-> more.f, out |-> one.out \o more.out]

\* a flush that takes the content of the open tag as a command
flush_ExecutesOpenTag(f) ==
  IF ~f.in_tag
  THEN [f |-> [f EXCEPT !.buf = << >>], out |-> f.buf]
  ELSE [f |-> [f EXCEPT !.shell_commands = Append(@, Strip(f.tag_buf))],
        out |-> << >>]

\* a flush that forgets the lookahead buffer
flush_DropsBuffer(f) ==
  [f |-> [f EXCEPT !.buf = << >>], out |-> << >>]

\* flush(): the filter afterwards and the display text returned
flush(f) ==
  IF ~f.in_tag
  THEN [f |-> [f EXCEPT !.buf = << >>], out |-> f.buf]
  ELSE [f |-> f, out |-> << >>]

\* what _process_with_llm takes for execution once the stream has ended: the
\* directives of action_commands first, then the commands of shell_commands,
\* each trimmed, the empty ones skipped
Directive(kind, body) == [kind |-> kind, body |-> Strip(body)]

DispatchOrder(f) ==
  LET nonempty(b) == Strip(b) # << >>
      actions == SelectSeq(f.action_commands, nonempty)
      shells == SelectSeq(f.shell_commands, nonempty)
  IN [i \in 1..Len(actions) |-> Directive("action", actions[i])]
     \o [i \in 1..Len(shells) |-> Directive("shell", shells[i])]


\* re.findall(r'\[SHELL\](.*?)\[/SHELL\]', llm_response, re.DOTALL) of the
\* non-streaming path, and likewise for [ACTION]: the bodies of the matches,
\* each match starting at the leftmost opening marker not yet consumed and
\* ending at the first closing marker after it
RECURSIVE findall(_, _, _)
findall(open, close, s) ==
  LET i == IndexOf(open, s)
  IN IF i = 0 THEN << >>
     ELSE LET rest == SubSeq(s, i + Len(open), Len(s))
              j == IndexOf(close, rest)
          IN IF j = 0 THEN << >>
             ELSE << SubSeq(rest, 1, j - 1) >>
                  \o findall(open, close,
                             SubSeq(rest, j + Len(close), Len(rest)))

\* what the non-streaming path of _process_with_llm collects from the whole
\* response text
extract(llm_response) ==
  [shell_commands |-> findall(OPEN_SHELL, CLOSE_SHELL, llm_response),
   action_commands |-> findall(OPEN_ACTION, CLOSE_ACTION, llm_response)]


(***************************************************************************)
(* parse_action_tag (action_router.py): the body of an [ACTION] directive   *)
(* to an ActionRequest, or None.                                            *)
(***************************************************************************)
\* str.lower(), character by character
LowerChar(ch) ==
  CASE ch = "A" -> "a"
    [] ch = "B" -> "b"
    [] ch = "C" -> "c"
    [] ch = "D" -> "d"
    [] ch = "E" -> "e"
    [] ch = "F" -> "f"
    [] ch = "G" -> "g"
    [] ch = "H" -> "h"
    [] ch = "I" -> "i"
    [] ch = "J" -> "j"
    [] ch = "K" -> "k"
    [] ch = "L" -> "l"
    [] ch = "M" -> "m"
    [] ch = "N" -> "n"
    [] ch = "O" -> "o"
    [] ch = "P" -> "p"
    [] ch = "Q" -> "q"
    [] ch = "R" -> "r"
    [] ch = "S" -> "s"
    [] ch = "T" -> "t"
    [] ch = "U" -> "u"
    [] ch = "V" -> "v"
    [] ch = "W" -> "w"
    [] ch = "X" -> "x"
    [] ch = "Y" -> "y"
    [] ch = "Z" -> "z"
    [] OTHER -> ch

Lower(s) == [i \in 1..Len(s) |-> LowerChar(s[i])]

\* type_map.get(action_str): "" stands for None
type_map(action_str) ==
  CASE action_str = << "l", "a", "u", "n", "c", "h", "_", "a", "p", "p" >> -> LAUNCH_APP
    [] action_str = << "o", "p", "e", "n", "_", "a", "p", "p" >> -> LAUNCH_APP
    [] action_str = << "o", "p", "e", "n" >> -> LAUNCH_APP
    [] action_str = << "o", "p", "e", "n", "_", "u", "r", "l" >> -> OPEN_URL
    [] action_str = << "u", "r", "l" >> -> OPEN_URL
    [] action_str = << "b", "r", "o", "w", "s", "e" >> -> OPEN_URL
    [] action_str = << "s", "h", "e", "l", "l" >> -> SHELL_COMMAND
    [] action_str = << "r", "u", "n" >> -> SHELL_COMMAND
    [] action_str = << "s", "y", "s", "t", "e", "m", "_", "i", "n", "f", "o" >> -> SYSTEM_INFO
    [] action_str = << "s", "y", "s", "i", "n", "f", "o" >> -> SYSTEM_INFO
    [] action_str = << "n", "o", "t", "i", "f", "y" >> -> NOTIFICATION
    [] action_str = << "n", "o", "t", "i", "f", "i", "c", "a", "t", "i", "o", "n" >> -> NOTIFICATION
    [] OTHER -> ""

None == [action_type |-> "", target |-> << >>, args |-> << >>, raw_text |-> << >>]

ActionRequest(action_type, target, args, raw_text) ==
  [action_type |-> action_type, target |-> target, args |-> args, raw_text |-> raw_text]

\* a parse that takes every type word it does not know for a shell command
parse_action_tag_AnyType(content) ==
  LET c == Strip(content)
      colon == IndexOf(<< ":" >>, c)
      action_str == IF colon # 0 THEN Lower(Strip(SubSeq(c, 1, colon - 1)))
                    ELSE Lower(Strip(c))
      target == IF colon # 0 THEN Strip(SubSeq(c, colon + 1, Len(c)))
                ELSE << >>
      action_type == IF type_map(action_str) = "" THEN SHELL_COMMAND
                     ELSE type_map(action_str)
      bar == IndexOf(<< "|" >>, target)
  IN IF c = << >> THEN None
     ELSE IF action_type = NOTIFICATION /\ bar # 0
     THEN ActionRequest(action_type, Strip(SubSeq(target, 1, bar - 1)),
                        << Strip(SubSeq(target, bar + 1, Len(target))) >>, c)
     ELSE ActionRequest(action_type, target, << >>, c)

parse_action_tag(content) ==
  LET c == Strip(content)
      colon == IndexOf(<< ":" >>, c)
      action_str == IF colon # 0 THEN Lower(Strip(SubSeq(c, 1, colon - 1)))
                    ELSE Lower(Strip(c))
      target == IF colon # 0 THEN Strip(SubSeq(c, colon + 1, Len(c)))
                ELSE << >>
      action_type == type_map(action_str)
      bar == IndexOf(<< "|" >>, target)
  IN IF c = << >> THEN None
     ELSE IF action_type = "" THEN None
     ELSE IF action_type = NOTIFICATION /\ bar # 0
     THEN ActionRequest(action_type, Strip(SubSeq(target, 1, bar - 1)),
                        << Strip(SubSeq(target, bar + 1, Len(target))) >>, c)
     ELSE ActionRequest(action_type, target, << >>, c)

\* the text of a target handed to the router, as the string it stands for
Text(chars) ==
  CASE chars = << >> -> ""
    [] chars = << "x" >> -> "x"
    [] chars = << "H", "e", "l", "l", "o" >> -> "Hello"
    [] chars = << "W", "o", "r", "l", "d" >> -> "World"
    [] chars = << "H", "e", "l", "l", "o", " ", "|", " ", "W", "o", "r", "l", "d" >> -> "Hello | World"
    [] chars = << "a" >> -> "a"
    [] chars = << "b", "|", "c" >> -> "b|c"
    [] chars = << "a", "|", "b", "|", "c" >> -> "a|b|c"
    [] chars = << "h", "t", "t", "p", "s", ":", "/", "/", "x", ".", "c", "o", "m" >> -> "https://x.com"
    [] chars = << "f", "o", "r", "m", "a", "t", " ", "c", ":" >> -> "format c:"
    [] chars = << "s", "h", "u", "t", "d", "o", "w", "n", " ", "/", "s" >> -> "shutdown /s"

\* the ActionRequest as the router receives it
ToRequest(req) ==
  [action_type |-> req.action_type, target |-> Text(req.target),
   args |-> [i \in 1..Len(req.args) |-> Text(req.args[i])]]


(***************************************************************************)
(* AppRegistry (app_registry.py): the registry file, _load and resolve.     *)
(***************************************************************************)
AppEntry(name, display_name, aliases, launch_method) ==
  [name |-> name, display_name |-> display_name, aliases |-> aliases,
   launch_method |-> launch_method]

\* what resolve returns for a name it does not find (None)
NoEntry == AppEntry(<< >>, "", << >>, "")

\* the entries of the registry file, in file order
RegistryFile ==
  << AppEntry(<< "c", "h", "r", "o", "m", "e" >>, "Google Chrome",
              << << "g", "o", "o", "g", "l", "e", " ", "c", "h", "r", "o", "m", "e" >>,
                 << "C", "h", "r", "o", "m", "e", " ", "B", "r", "o", "w", "s", "e", "r" >> >>, "exe"),
     AppEntry(<< "n", "o", "t", "e", "p", "a", "d" >>, "Notepad",
              << << "n", "o", "t", "e", " ", "p", "a", "d" >> >>, "exe"),
     AppEntry(<< "n", "o", "t", "e", "p", "a", "d", "+", "+" >>, "Notepad++",
              << << "n", "p", "p" >> >>, "exe"),
     AppEntry(<< "s", "p", "o", "t", "i", "f", "y" >>, "Spotify",
              << << "S", "p", "o", "t", "i", "f", "y", " ", "M", "u", "s", "i", "c" >>,
                 << "m", "u", "s", "i", "c" >> >>, "uri") >>

\* _load: the assignments made to _alias_map, in order: for every entry its
\* key, then each of its aliases, all lower-cased
AliasAssignments(e) ==
  << << Lower(e.name), e.name >> >>
  \o [i \in 1..Len(e.aliases) |-> << Lower(e.aliases[i]), e.name >>]

RECURSIVE LoadAliases(_)
LoadAliases(entries) ==
  IF entries = << >> THEN << >>
  ELSE AliasAssignments(Head(entries)) \o LoadAliases(Tail(entries))

\* _alias_map[q]: the canonical key assigned last to q, << >> when q is no key
\* of the map
alias_map(q) ==
  LET assigned == LoadAliases(registry)
      hits == {i \in DOMAIN assigned : assigned[i][1] = q}
  IN IF hits = {} THEN << >>
     ELSE assigned[CHOOSE i \in hits : \A j \in hits : j <= i][2]

\* _apps[key]
apps(key) ==
  LET at == {i \in DOMAIN registry : registry[i].name = key}
  IN registry[CHOOSE i \in at : \A j \in at : j <= i]

\* the keys of _alias_map
AliasKeys == {LoadAliases(registry)[i][1] : i \in DOMAIN LoadAliases(registry)}

\* difflib.SequenceMatcher with a = the alias and b = the name looked up (no
\* junk: the strings are far shorter than 200 characters).  Positions count
\* from 1 and the ranges alo..ahi, blo..bhi include both ends.
RECURSIVE RunLength(_, _, _, _, _, _)
RunLength(a, b, i, j, ahi, bhi) ==
  IF i > ahi \/ j > bhi THEN 0
  ELSE IF a[i] # b[j] THEN 0
  ELSE 1 + RunLength(a, b, i + 1, j + 1, ahi, bhi)

\* find_longest_match: the longest block a[i..i+size-1] = b[j..j+size-1] in
\* the ranges; of the longest the one starting earliest in a, then earliest in b
find_longest_match(a, b, alo, ahi, blo, bhi) ==
  LET starts == {p \in (alo..ahi) \X (blo..bhi) : a[p[1]] = b[p[2]]}
      size(p) == RunLength(a, b, p[1], p[2], ahi, bhi)
      longest == {p \in starts : \A o \in starts : size(o) <= size(p)}
      first == CHOOSE p \in longest :
                 \A o \in longest : p[1] < o[1] \/ (p[1] = o[1] /\ p[2] <= o[2])
  IN IF starts = {} THEN [i |-> alo, j |-> blo, size |-> 0]
     ELSE [i |-> first[1], j |-> first[2], size |-> size(first)]

\* get_matching_blocks: the number of characters in the matching blocks, the
\* longest block first, then the blocks to its left and to its right
RECURSIVE matches(_, _, _, _, _, _)
matches(a, b, alo, ahi, blo, bhi) ==
  IF alo > ahi \/ blo > bhi THEN 0
  ELSE LET m == find_longest_match(a, b, alo, ahi, blo, bhi)
       IN IF m.size = 0 THEN 0
          ELSE m.size
               + matches(a, b, alo, m.i - 1, blo, m.j - 1)
               + matches(a, b, m.i + m.size, ahi, m.j + m.size, bhi)

\* ratio() = 2.0 * matches / (len(a) + len(b)), kept as the fraction num / den
\* (1.0 when both strings are empty)
ratio(a, b) ==
  IF Len(a) + Len(b) = 0 THEN [num |-> 1, den |-> 1]
  ELSE [num |-> 2 * matches(a, b, 1, Len(a), 1, Len(b)), den |-> Len(a) + Len(b)]

\* r1 < r2 and r1 <= r2 for two ratios
RatioLess(r1, r2) == r1.num * r2.den < r2.num * r1.den
RatioAtLeast(r1, r2) == r1.num * r2.den >= r2.num * r1.den

\* cutoff=0.7 in the call of get_close_matches
cutoff == [num |-> 7, den |-> 10]

\* Python's order of strings (by code point) for the characters of the alias
\* keys: space, '+', then the lower-case letters
CodePoints ==
  << " ", "+", "a", "b", "c", "d", "e", "f", "g", "h", "i", "j", "k", "l", "m",
     "n", "o", "p", "q", "r", "s", "t", "u", "v", "w", "x", "y", "z" >>

ord(ch) == CHOOSE i \in DOMAIN CodePoints : CodePoints[i] = ch

RECURSIVE StringLess(_, _)
StringLess(x, y) ==
  IF y = << >> THEN FALSE
  ELSE IF x = << >> THEN TRUE
  ELSE IF Head(x) # Head(y) THEN ord(Head(x)) < ord(Head(y))
  ELSE StringLess(Tail(x), Tail(y))

\* a matcher that accepts the best alias whatever its score
get_close_matches_NoCutoff(q) ==
  LET best == {x \in AliasKeys :
                 \A y \in AliasKeys :
                    \/ RatioLess(ratio(y, q), ratio(x, q))
                    \/ (~RatioLess(ratio(x, q), ratio(y, q)) /\ ~StringLess(x, y))}
  IN IF best = {} THEN << >> ELSE CHOOSE x \in best : TRUE

\* difflib.get_close_matches(q, all_aliases, n=1, cutoff=0.7) over the keys of
\* _alias_map: of the aliases scoring at least the cutoff the one with the
\* largest (score, alias), << >> when there is none
get_close_matches(q) ==
  LET scored == {x \in AliasKeys : RatioAtLeast(ratio(x, q), cutoff)}
      largest == {x \in scored :
                    \A y \in scored :
                       \/ RatioLess(ratio(y, q), ratio(x, q))
                       \/ (~RatioLess(ratio(x, q), ratio(y, q)) /\ ~StringLess(x, y))}
  IN IF largest = {} THEN << >> ELSE CHOOSE x \in largest : TRUE

\* a lookup that compares the name as typed
resolve_CaseSensitive(name) ==
  LET q == Strip(name)
  IN IF alias_map(q) # << >> THEN apps(alias_map(q))
     ELSE IF get_close_matches(q) # << >>
     THEN apps(alias_map(get_close_matches(q)))
     ELSE NoEntry

resolve(name) ==
  LET q == Lower(Strip(name))
  IN IF alias_map(q) # << >> THEN apps(alias_map(q))
     ELSE IF get_close_matches(q) # << >>
     THEN apps(alias_map(get_close_matches(q)))
     ELSE NoEntry


(***************************************************************************)
(* Orchestrator (orchestrator.py): its modes, its confirmation and its      *)
(* shell execution.  Its ActionRouter is constructed with                   *)
(* Orchestrator._request_confirmation as confirmation callback, so in an    *)
(* Orchestrator confirm_log holds the calls of _request_confirmation, each  *)
(* with the answer it returned.                                             *)
(***************************************************************************)
\* the Orchestrator between two requests: the two modes of "shell ..." and
\* whether a UI callback is wired to _confirm_callback.  While a request is
\* processed, depth, action_commands and shell_commands are those of the
\* running _process_with_llm call, stack holds the calls that wait for a
\* recovery to return, abandoned tells that the producer of the response
\* failed, and events lists what the request has done so far.
NewOrchestrator(confirmation_mode, wsl_mode, callback) ==
  [pc |-> "idle", confirmation_mode |-> confirmation_mode,
   wsl_mode |-> wsl_mode, callback |-> callback,
   depth |-> 0, stack |-> << >>, action_commands |-> << >>,
   shell_commands |-> << >>, abandoned |-> FALSE, events |-> << >>]

\* a plausible slip: without a UI callback the command is approved
Orchestrator_request_confirmation_FailOpen(env, command, answer) ==
  LET a == IF orch.callback THEN answer ELSE TRUE
  IN [approved |-> a,
      env |-> [env EXCEPT !.confirm =
                 Append(@, [command |-> command, answer |-> a])]]

\* Orchestrator._request_confirmation: the UI callback's answer, or deny
\* when none is wired
Orchestrator_request_confirmation(env, command, answer) ==
  LET a == IF orch.callback THEN answer ELSE FALSE
  IN [approved |-> a,
      env |-> [env EXCEPT !.confirm =
                 Append(@, [command |-> command, answer |-> a])]]

\* a plausible slip: the prefix is added by the backend only, after the
\* router has assessed the command as typed
wsl_command_Unprefixed(command) == command

\* the command _execute_shell hands to the router: f"wsl -- {command}" in
\* WSL mode
wsl_command(command) ==
  IF orch.wsl_mode THEN "wsl -- " \o command ELSE command

\* Orchestrator._execute_shell: the blanket confirmation of confirmation
\* mode, the WSL prefix, then ActionRouter.execute_shell; `answer` is the
\* user's answer to the blanket question, `router_answer` the answer to the
\* router's question for a High-risk command
Orchestrator_execute_shell(env, command, from_llm, answer, router_answer, outcome) ==
  LET asked == IF orch.confirmation_mode
               THEN Orchestrator_request_confirmation(env, command, answer)
               ELSE [approved |-> TRUE, env |-> env]
  IN IF ~asked.approved
     THEN [env |-> asked.env, result |-> NoResult, routed |-> FALSE,
           command |-> command, out |-> "Command cancelled by user"]
     ELSE LET r == execute_shell(asked.env, wsl_command(command), from_llm,
                                 Orchestrator_request_confirmation(
                                    asked.env, wsl_command(command),
                                    router_answer).approved,
                                 outcome, TRUE)
          IN [env |-> r.env, result |-> r.result, routed |-> TRUE,
              command |-> wsl_command(command), out |-> r.result.message]


Min(a, b) == IF a <= b THEN a ELSE b

MaxToken == 8    \* characters in one token of a streamed response
MaxDepth == 3    \* nested _process_with_llm calls the model follows

\* the token generate_response_stream yields when its backend raises while
\* the response is streamed: f"Error: {e}" (brain.py:683-685)
ErrorToken == << "E", "r", "r", "o", "r", ":", " ", "e" >>

\* a plausible slip: the loop over the tokens is left after the first one
StreamEnded_AfterFirstToken == pos > 0

\* the loop `for token in generate_response_stream(...)` is exhausted
StreamEnded == pos = Len(stream)

\* a plausible slip: commands are dispatched as they come, without waiting
\* for the directives
ShellLoopEntered_AnyTime == TRUE

\* the loop over shell_commands starts when the loop over action_commands
\* has ended (orchestrator.py:345-366)
ShellLoopEntered == orch.action_commands = << >>

\* `"Blocked dangerous" in shell_output or "cancelled" in shell_output`
Refused(shell_output) ==
  shell_output \in {"Blocked dangerous command",
                    "Command cancelled (requires confirmation)",
                    "Command cancelled by user"}

\* shell_output.startswith("Error:") or .startswith("Shell Error:")
is_error(shell_output) == shell_output \in {"Error: stderr"}

\* a plausible slip: the recovery is started at every depth
auto_recover_Unbounded(shell_output, depth) == is_error(shell_output)

\* `if is_error and depth < 2`
auto_recover(shell_output, depth) == is_error(shell_output) /\ depth < 2

\* what a request has done: the step, the depth of the _process_with_llm call
\* that did it, the directive or command concerned (for a flush, the lists
\* the filter has collected), the output obtained, and
\* whether at that moment the whole response had been fed and flushed and the
\* response had been abandoned by its producer
Event(ev, body, out) ==
  [ev |-> ev, depth |-> orch.depth, body |-> body, out |-> out,
   complete |-> flushed /\ pos = Len(stream), abandoned |-> orch.abandoned]


(***************************************************************************)
(* Calls of the router, the tools and the safety engine                     *)
(***************************************************************************)
Call(op, target, from_llm, must_block, before, r) ==
  LET ra == assess_command(target)
  IN [op |-> op, target |-> target, from_llm |-> from_llm,
      risk |-> ra.risk, desc |-> ra.desc, must_block |-> must_block,
      result |-> r.result,
      run_shell |-> Len(SelectSeq(SubSeq(r.env.backend,
                                         Len(before.backend) + 1,
                                         Len(r.env.backend)),
                                  LAMBDA c : c.op = "run_shell")),
      backend |-> Len(r.env.backend) - Len(before.backend),
      confirms |-> SubSeq(r.env.confirm, Len(before.confirm) + 1,
                          Len(r.env.confirm)),
      audits |-> r.env.audits]

NoCall ==
  [op |-> "none", target |-> "", from_llm |-> FALSE, risk |-> LOW,
   desc |-> "", must_block |-> FALSE, result |-> NoResult, run_shell |-> 0,
   backend |-> 0, confirms |-> << >>, audits |-> << >>]

Commit(r) ==
  /\ audit_log' = r.env.log
  /\ audit_file' = r.env.file
  /\ backend_log' = r.env.backend
  /\ confirm_log' = r.env.confirm

ExecuteShell(command, from_llm, answer, outcome, io_ok) ==
  \E r \in {execute_shell(Env, command, from_llm, answer, outcome, io_ok)} :
     /\ Commit(r)
     /\ last' = Call("execute_shell", command, from_llm,
                     should_block(command, execution_timestamps, now).block,
                     Env, r)
     /\ ncalls' = ncalls + 1
     /\ UNCHANGED << blocklist, allowlist, execution_timestamps, now,
                     confirm_callback, rate_history >>
     /\ UNCHANGED << filterVars, parseVars, lookupVars, threadVars, orchVars >>

ExecuteAction(request, answer, outcome, io_ok) ==
  \E r \in {execute_action(Env, request, answer, outcome, io_ok)} :
     /\ Commit(r)
     /\ last' = [Call("execute_action", request.target, TRUE,
                      request.action_type = SHELL_COMMAND
                      /\ should_block(request.target, execution_timestamps,
                                      now).block,
                      Env, r)
                 EXCEPT !.risk = IF request.action_type = SHELL_COMMAND
                                 THEN @ ELSE assess_action(request.action_type),
                        !.desc = request.action_type]
     /\ ncalls' = ncalls + 1
     /\ UNCHANGED << blocklist, allowlist, execution_timestamps, now,
                     confirm_callback, rate_history >>
     /\ UNCHANGED << filterVars, lookupVars, threadVars, orchVars, directive, parsed >>

ToolsExecuteTerminalCommand(command, outcome) ==
  \E r \in {execute_terminal_command(Env, command, outcome)} :
     /\ Commit(r)
     /\ last' = Call("execute_terminal_command", command, FALSE,
                     should_block(command, execution_timestamps, now).block,
                     Env, r)
     /\ ncalls' = ncalls + 1
     /\ UNCHANGED << blocklist, allowlist, execution_timestamps, now,
                     confirm_callback, rate_history >>
     /\ UNCHANGED << filterVars, parseVars, lookupVars, threadVars, orchVars >>

ShouldBlock(command) ==
  LET sb == should_block(command, execution_timestamps, now)
  IN /\ execution_timestamps' = sb.timestamps
     /\ rate_history' = Append(rate_history,
                               [t |-> now,
                                limited |-> sb.reason
                                            = "Blocked: Rate limit exceeded"])
     /\ last' = [NoCall EXCEPT !.op = "should_block", !.target = command,
                               !.risk = assess_command(command).risk,
                               !.desc = sb.reason,
                               !.must_block = sb.block]
     /\ ncalls' = ncalls + 1
     /\ UNCHANGED << blocklist, allowlist, audit_log, audit_file, now,
                     confirm_callback, backend_log, confirm_log >>
     /\ UNCHANGED << filterVars, parseVars, lookupVars, threadVars, orchVars >>

AddToBlocklist(command) ==
  /\ blocklist' = Append(blocklist, command)
  /\ UNCHANGED << allowlist, audit_log, audit_file, execution_timestamps, now,
                  confirm_callback, backend_log, confirm_log, ncalls, last,
                  rate_history >>
  /\ UNCHANGED << filterVars, parseVars, lookupVars, threadVars, orchVars >>

AddToAllowlist(pattern) ==
  /\ allowlist' = Append(allowlist, pattern)
  /\ UNCHANGED << blocklist, audit_log, audit_file, execution_timestamps, now,
                  confirm_callback, backend_log, confirm_log, ncalls, last,
                  rate_history >>
  /\ UNCHANGED << filterVars, parseVars, lookupVars, threadVars, orchVars >>

\* SafetyEngine.log_action called on its own
LogAction(action_type, target, risk, outcome, from_llm, io_ok) ==
  \E r \in {log_action(audit_log, audit_file,
                       AuditEntry(action_type, target, risk, outcome, from_llm),
                       io_ok)} :
     /\ audit_log' = r.log
     /\ audit_file' = r.file
     /\ logged' = Append(logged,
                         AuditEntry(action_type, target, risk, outcome, from_llm))
     /\ last' = [NoCall EXCEPT !.op = "log_action", !.target = target,
                               !.risk = risk]
     /\ ncalls' = ncalls + 1
     /\ UNCHANGED << blocklist, allowlist, execution_timestamps, now,
                     confirm_callback, backend_log, confirm_log, rate_history >>
     /\ UNCHANGED << thread, confirm_event, confirm_result, dialogs, delivered >>
     /\ UNCHANGED << filterVars, parseVars, lookupVars, orchVars >>

\* SafetyEngine.get_audit_log(limit); the limit and the entries returned are
\* kept in last.limit and last.audits
GetAuditLog(limit) ==
  /\ last' = ("limit" :> limit)
              @@ [NoCall EXCEPT !.op = "get_audit_log",
                                !.audits = get_audit_log(limit)]
  /\ UNCHANGED << blocklist, allowlist, audit_log, audit_file,
                  execution_timestamps, now, confirm_callback, backend_log,
                  confirm_log, ncalls, rate_history >>
  /\ UNCHANGED << filterVars, parseVars, lookupVars, threadVars, orchVars >>

\* the command threads of main.py (one is started per command)
Threads == {1, 2}

Idle == [pc |-> "idle"]

\* log_action as a command thread runs it, one access to the shared trail at
\* a time (no lock is held, safety.py:172-209): the entry is built, appended
\* to _audit_log, the length is tested, the last _max_audit elements are
\* sliced into a new list, the new list is stored in _audit_log, and a line is
\* appended to the file.  The entry's timestamp is the clock read at the call;
\* the clock has moved on by a second between two calls.
ThreadUnchanged ==
  /\ UNCHANGED << blocklist, allowlist, execution_timestamps,
                  confirm_callback, backend_log, confirm_log, last,
                  rate_history >>
  /\ UNCHANGED << confirm_event, confirm_result, dialogs, delivered >>
  /\ UNCHANGED << filterVars, parseVars, lookupVars, orchVars >>

LogActionEntry(t, target) ==
  /\ thread[t].pc = "idle"
  /\ thread' = [thread EXCEPT ![t] =
                  [pc |-> "append",
                   entry |-> [AuditEntry("shell", target,
                                         assess_command(target).risk,
                                         "success", FALSE)
                              EXCEPT !.timestamp = now + 1]]]
  /\ now' = now + 1
  /\ ncalls' = ncalls + 1
  /\ UNCHANGED << audit_log, audit_file, logged >>
  /\ ThreadUnchanged

LogActionAppend(t) ==
  /\ thread[t].pc = "append"
  /\ audit_log' = Append(audit_log, thread[t].entry)
  /\ logged' = Append(logged, thread[t].entry)
  /\ thread' = [thread EXCEPT ![t].pc = "test"]
  /\ UNCHANGED << audit_file, ncalls, now >>
  /\ ThreadUnchanged

LogActionTest(t) ==
  /\ thread[t].pc = "test"
  /\ thread' = [thread EXCEPT ![t].pc =
                  IF Len(audit_log) > max_audit THEN "slice" ELSE "write"]
  /\ UNCHANGED << audit_log, audit_file, logged, ncalls, now >>
  /\ ThreadUnchanged

LogActionSlice(t) ==
  /\ thread[t].pc = "slice"
  /\ thread' = [thread EXCEPT ![t] =
                  [pc |-> "assign", entry |-> thread[t].entry,
                   kept |-> SubSeq(audit_log,
                                   IF Len(audit_log) > max_audit
                                   THEN Len(audit_log) - max_audit + 1 ELSE 1,
                                   Len(audit_log))]]
  /\ UNCHANGED << audit_log, audit_file, logged, ncalls, now >>
  /\ ThreadUnchanged

LogActionAssign(t) ==
  /\ thread[t].pc = "assign"
  /\ audit_log' = thread[t].kept
  /\ thread' = [thread EXCEPT ![t] = [pc |-> "write", entry |-> thread[t].entry]]
  /\ UNCHANGED << audit_file, logged, ncalls, now >>
  /\ ThreadUnchanged

LogActionWrite(t, io_ok) ==
  /\ thread[t].pc = "write"
  /\ audit_file' = IF io_ok THEN Append(audit_file, thread[t].entry)
                   ELSE audit_file
  /\ thread' = [thread EXCEPT ![t] = Idle]
  /\ UNCHANGED << audit_log, logged, ncalls, now >>
  /\ ThreadUnchanged

\* should_block as a command thread runs it, one access to the shared window
\* at a time (no lock is held, safety.py:127-137): the clock is read, the
\* timestamps younger than the window are collected, the new list is stored
\* in _execution_timestamps, its length is tested, and the call's own
\* timestamp is appended.
RaceUnchanged ==
  /\ UNCHANGED << blocklist, allowlist, audit_log, audit_file, now,
                  confirm_callback, backend_log, confirm_log >>
  /\ UNCHANGED << logged, confirm_event, confirm_result, dialogs, delivered >>
  /\ UNCHANGED << filterVars, parseVars, lookupVars, orchVars >>

ShouldBlockClock(t, command) ==
  /\ thread[t].pc = "idle"
  /\ thread' = [thread EXCEPT ![t] =
                  [pc |-> "filter", command |-> command, now |-> now]]
  /\ ncalls' = ncalls + 1
  /\ UNCHANGED << execution_timestamps, rate_history, last >>
  /\ RaceUnchanged

ShouldBlockFilter(t) ==
  /\ thread[t].pc = "filter"
  /\ thread' = [thread EXCEPT ![t] =
                  [pc |-> "store", command |-> thread[t].command,
                   now |-> thread[t].now,
                   kept |-> RecentTimestamps(execution_timestamps, thread[t].now)]]
  /\ UNCHANGED << execution_timestamps, rate_history, last, ncalls >>
  /\ RaceUnchanged

ShouldBlockStore(t) ==
  /\ thread[t].pc = "store"
  /\ execution_timestamps' = thread[t].kept
  /\ thread' = [thread EXCEPT ![t] =
                  [pc |-> "test", command |-> thread[t].command,
                   now |-> thread[t].now]]
  /\ UNCHANGED << rate_history, last, ncalls >>
  /\ RaceUnchanged

ShouldBlockTest(t) ==
  /\ thread[t].pc = "test"
  /\ IF Len(execution_timestamps) >= RATE_LIMIT
     THEN /\ thread' = [thread EXCEPT ![t] = Idle]
          /\ rate_history' = Append(rate_history,
                                    [t |-> thread[t].now, limited |-> TRUE])
          /\ last' = [NoCall EXCEPT !.op = "should_block",
                                    !.target = thread[t].command,
                                    !.risk = assess_command(thread[t].command).risk,
                                    !.desc = "Blocked: Rate limit exceeded",
                                    !.must_block = TRUE]
     ELSE /\ thread' = [thread EXCEPT ![t].pc = "append"]
          /\ UNCHANGED << rate_history, last >>
  /\ UNCHANGED << execution_timestamps, ncalls >>
  /\ RaceUnchanged

ShouldBlockAppend(t) ==
  /\ thread[t].pc = "append"
  /\ execution_timestamps' = Append(execution_timestamps, thread[t].now)
  /\ thread' = [thread EXCEPT ![t] = Idle]
  /\ rate_history' = Append(rate_history,
                            [t |-> thread[t].now, limited |-> FALSE])
  /\ last' = [NoCall EXCEPT !.op = "should_block",
                            !.target = thread[t].command,
                            !.risk = assess_command(thread[t].command).risk,
                            !.desc = assess_command(thread[t].command).desc,
                            !.must_block =
                               assess_command(thread[t].command).risk = CRITICAL]
  /\ UNCHANGED ncalls
  /\ RaceUnchanged

\* The confirmation handoff of main.py.  A command thread inside execute_shell
\* calls request_confirmation (main.py:174-179): it resets the shared result,
\* clears the shared Event, emits confirm_request to the UI thread and waits
\* on the Event; when it wakes it returns the shared result to the router,
\* which runs or refuses the command.  The UI thread shows a dialog for every
\* request it receives; a decision reaches on_confirm_response (main.py:
\* 168-170), which stores it in the shared result and sets the Event, waking
\* every thread that waits on it.
UI == 0

HandoffUnchanged ==
  /\ UNCHANGED << blocklist, allowlist, execution_timestamps, now,
                  confirm_callback, rate_history, logged >>
  /\ UNCHANGED << filterVars, parseVars, lookupVars, orchVars >>

RouterUnchanged == UNCHANGED << audit_log, audit_file, backend_log, confirm_log, last >>

RequestConfirmationReset(t, command) ==
  /\ thread[t].pc = "idle"
  /\ NeedsConfirmation(assess_command(command).risk)
  /\ ~IsBlocked(assess_command(command).risk)
  /\ confirm_callback
  /\ confirm_result' = FALSE
  /\ thread' = [thread EXCEPT ![t] = [pc |-> "clear", command |-> command]]
  /\ ncalls' = ncalls + 1
  /\ UNCHANGED << confirm_event, dialogs, delivered >>
  /\ RouterUnchanged
  /\ HandoffUnchanged

RequestConfirmationClear(t) ==
  /\ thread[t].pc = "clear"
  /\ confirm_event' = FALSE
  /\ thread' = [thread EXCEPT ![t].pc = "emit"]
  /\ UNCHANGED << confirm_result, dialogs, delivered, ncalls >>
  /\ RouterUnchanged
  /\ HandoffUnchanged

RequestConfirmationEmit(t) ==
  /\ thread[t].pc = "emit"
  /\ dialogs' = Append(dialogs, [thread |-> t, command |-> thread[t].command])
  /\ thread' = [thread EXCEPT ![t].pc = "wait"]
  /\ UNCHANGED << confirm_event, confirm_result, delivered, ncalls >>
  /\ RouterUnchanged
  /\ HandoffUnchanged

\* Event.wait(): returns at once when the Event is set, blocks otherwise
RequestConfirmationWait(t) ==
  /\ thread[t].pc = "wait"
  /\ thread' = [thread EXCEPT ![t].pc =
                  IF confirm_event THEN "read" ELSE "blocked"]
  /\ UNCHANGED << confirm_event, confirm_result, dialogs, delivered, ncalls >>
  /\ RouterUnchanged
  /\ HandoffUnchanged

\* the callback returns confirm_result["approved"] and execute_shell goes on
\* with it
RequestConfirmationReturn(t, outcome) ==
  /\ thread[t].pc = "read"
  /\ \E r \in {execute_shell(Env, thread[t].command, TRUE, confirm_result,
                              outcome, TRUE)} :
        /\ Commit(r)
        /\ last' = Call("execute_shell", thread[t].command, TRUE, FALSE, Env, r)
  /\ thread' = [thread EXCEPT ![t] =
                  [pc |-> "returned", command |-> thread[t].command,
                   approved |-> confirm_result]]
  /\ UNCHANGED << confirm_event, confirm_result, dialogs, delivered, ncalls >>
  /\ HandoffUnchanged

\* the user answers one of the dialogs on screen
UiDecide(i, approved) ==
  /\ thread[UI].pc = "idle"
  /\ i \in DOMAIN dialogs
  /\ dialogs' = [j \in 1..(Len(dialogs) - 1) |->
                   IF j < i THEN dialogs[j] ELSE dialogs[j + 1]]
  /\ delivered' = Append(delivered,
                         [thread |-> dialogs[i].thread, approved |-> approved])
  /\ thread' = [thread EXCEPT ![UI] = [pc |-> "result", approved |-> approved]]
  /\ UNCHANGED << confirm_event, confirm_result, ncalls >>
  /\ RouterUnchanged
  /\ HandoffUnchanged

\* on_confirm_response: confirm_result["approved"] = approved
OnConfirmResponseResult ==
  /\ thread[UI].pc = "result"
  /\ confirm_result' = thread[UI].approved
  /\ thread' = [thread EXCEPT ![UI].pc = "set"]
  /\ UNCHANGED << confirm_event, dialogs, delivered, ncalls >>
  /\ RouterUnchanged
  /\ HandoffUnchanged

\* on_confirm_response: confirm_event.set(), which wakes every waiting thread
OnConfirmResponseSet ==
  /\ thread[UI].pc = "set"
  /\ confirm_event' = TRUE
  /\ thread' = [t \in DOMAIN thread |->
                  IF t = UI THEN Idle
                  ELSE IF thread[t].pc = "blocked"
                  THEN [thread[t] EXCEPT !.pc = "read"]
                  ELSE thread[t]]
  /\ UNCHANGED << confirm_result, dialogs, delivered, ncalls >>
  /\ RouterUnchanged
  /\ HandoffUnchanged

\* execute_shell as a command thread runs it, with the child process of
\* run_shell (windows.py:217-224): a command that passes the gate is started
\* by subprocess.run; the child exits by itself, or the timeout expires and
\* subprocess.run kills the child and raises TimeoutExpired; run_shell turns
\* either into a ShellResult and execute_shell audits and returns it.
ChildUnchanged ==
  /\ UNCHANGED << blocklist, allowlist, execution_timestamps, now,
                  confirm_callback, rate_history >>
  /\ UNCHANGED << logged, confirm_event, confirm_result, dialogs, delivered >>
  /\ UNCHANGED << filterVars, parseVars, lookupVars, orchVars >>

RunShellStart(t, command, from_llm, answer) ==
  /\ thread[t].pc = "idle"
  /\ ~IsBlocked(assess_command(command).risk)
  /\ NeedsConfirmation(assess_command(command).risk)
       => request_confirmation(Env, command, answer).approved
  /\ thread' = [thread EXCEPT ![t] =
                  [pc |-> "running", command |-> command,
                   from_llm |-> from_llm, answer |-> answer,
                   child |-> "running"]]
  /\ ncalls' = ncalls + 1
  /\ UNCHANGED << audit_log, audit_file, backend_log, confirm_log, last >>
  /\ ChildUnchanged

ChildExits(t, outcome) ==
  /\ thread[t].pc = "running"
  /\ thread' = [thread EXCEPT ![t] =
                  [pc |-> "finished", command |-> thread[t].command,
                   from_llm |-> thread[t].from_llm, answer |-> thread[t].answer,
                   child |-> "exited", outcome |-> outcome]]
  /\ UNCHANGED << audit_log, audit_file, backend_log, confirm_log, last, ncalls >>
  /\ ChildUnchanged

TimeoutExpired(t) ==
  /\ thread[t].pc = "running"
  /\ thread' = [thread EXCEPT ![t] =
                  [pc |-> "finished", command |-> thread[t].command,
                   from_llm |-> thread[t].from_llm, answer |-> thread[t].answer,
                   child |-> "killed", outcome |-> "timeout"]]
  /\ UNCHANGED << audit_log, audit_file, backend_log, confirm_log, last, ncalls >>
  /\ ChildUnchanged

RunShellReturn(t) ==
  /\ thread[t].pc = "finished"
  /\ \E r \in {execute_shell(Env, thread[t].command, thread[t].from_llm,
                              thread[t].answer, thread[t].outcome, TRUE)} :
        /\ Commit(r)
        /\ last' = Call("execute_shell", thread[t].command,
                        thread[t].from_llm, FALSE, Env, r)
        /\ thread' = [thread EXCEPT ![t] =
                        [pc |-> "returned", command |-> thread[t].command,
                         child |-> thread[t].child,
                         outcome |-> thread[t].outcome,
                         result |-> r.result, audits |-> r.env.audits]]
  /\ UNCHANGED ncalls
  /\ ChildUnchanged

\* ActionRouter.execute_shell statement by statement (action_router.py:199-
\* 258), as a command thread runs it.  thread[t].events lists what the call
\* has done so far: "assess", "confirm" (the callback was invoked), "run_shell"
\* (the backend was called), "ran" (the backend returned), "audit", "return";
\* thread[t].asked holds the texts the callback was invoked with.
ExecuteShellAssess(t, command, from_llm) ==
  /\ thread[t].pc = "idle"
  /\ thread' = [thread EXCEPT ![t] =
                  [pc |-> "assessed", command |-> command,
                   from_llm |-> from_llm,
                   risk |-> assess_command(command).risk,
                   desc |-> assess_command(command).desc,
                   events |-> << "assess" >>, asked |-> << >>,
                   result |-> NoResult, audits |-> << >>]]
  /\ ncalls' = ncalls + 1
  /\ UNCHANGED << audit_log, audit_file, backend_log, confirm_log, last >>
  /\ ChildUnchanged

\* step 1: a Critical command is audited as blocked and the call returns
ExecuteShellBlock(t) ==
  /\ thread[t].pc = "assessed"
  /\ IsBlocked(thread[t].risk)
  /\ LET entry == AuditEntry(SHELL_COMMAND, thread[t].command, CRITICAL,
                             "blocked", thread[t].from_llm)
         r == log_action(audit_log, audit_file, entry, TRUE)
     IN /\ audit_log' = r.log
        /\ audit_file' = r.file
        /\ thread' = [thread EXCEPT
                        ![t].pc = "returned",
                        ![t].events = @ \o << "audit", "return" >>,
                        ![t].audits = << entry >>,
                        ![t].result =
                           Result(FALSE, "Blocked dangerous command",
                                  thread[t].desc, thread[t].desc,
                                  thread[t].command, SHELL_COMMAND, CRITICAL,
                                  FALSE)]
  /\ UNCHANGED << backend_log, confirm_log, last, ncalls >>
  /\ ChildUnchanged

\* a plausible slip: the callback is invoked again when the first answer was
\* a denial
ExecuteShellConfirm_AsksAgain(t, answer) ==
  /\ thread[t].pc = "assessed"
  /\ ~IsBlocked(thread[t].risk)
  /\ NeedsConfirmation(thread[t].risk)
  /\ confirm_callback
  /\ LET n == IF answer THEN 1 ELSE 2
         calls == [i \in 1..n |-> [command |-> thread[t].command,
                                   answer |-> answer]]
     IN /\ confirm_log' = confirm_log \o calls
        /\ thread' = [thread EXCEPT
                        ![t].pc = IF answer THEN "approved" ELSE "denied",
                        ![t].events = @ \o [i \in 1..n |-> "confirm"],
                        ![t].asked = @ \o [i \in 1..n |-> thread[t].command]]
  /\ UNCHANGED << audit_log, audit_file, backend_log, last, ncalls >>
  /\ ChildUnchanged

\* step 2: for a High-risk command _request_confirmation invokes the callback
\* with the command, or denies when no callback is registered
ExecuteShellConfirm(t, answer) ==
  /\ thread[t].pc = "assessed"
  /\ ~IsBlocked(thread[t].risk)
  /\ NeedsConfirmation(thread[t].risk)
  /\ IF confirm_callback
     THEN /\ confirm_log' = Append(confirm_log,
                                   [command |-> thread[t].command,
                                    answer |-> answer])
          /\ thread' = [thread EXCEPT
                          ![t].pc = IF answer THEN "approved" ELSE "denied",
                          ![t].events = Append(@, "confirm"),
                          ![t].asked = Append(@, thread[t].command)]
     ELSE /\ ~answer
          /\ thread' = [thread EXCEPT ![t].pc = "denied"]
          /\ UNCHANGED confirm_log
  /\ UNCHANGED << audit_log, audit_file, backend_log, last, ncalls >>
  /\ ChildUnchanged

\* a denied command is audited as denied and the call returns
ExecuteShellDeny(t) ==
  /\ thread[t].pc = "denied"
  /\ LET entry == AuditEntry(SHELL_COMMAND, thread[t].command, HIGH,
                             "denied", thread[t].from_llm)
         r == log_action(audit_log, audit_file, entry, TRUE)
     IN /\ audit_log' = r.log
        /\ audit_file' = r.file
        /\ thread' = [thread EXCEPT
                        ![t].pc = "returned",
                        ![t].events = @ \o << "audit", "return" >>,
                        ![t].audits = << entry >>,
                        ![t].result =
                           Result(FALSE,
                                  "Command cancelled (requires confirmation)",
                                  "User denied", thread[t].desc,
                                  thread[t].command, SHELL_COMMAND, HIGH,
                                  FALSE)]
  /\ UNCHANGED << backend_log, confirm_log, last, ncalls >>
  /\ ChildUnchanged

\* step 3: backend.run_shell is called with the command
ExecuteShellRun(t) ==
  /\ \/ thread[t].pc = "approved"
     \/ /\ thread[t].pc = "assessed"
        /\ ~IsBlocked(thread[t].risk)
        /\ ~NeedsConfirmation(thread[t].risk)
  /\ backend_log' = Append(backend_log,
                           BackendCall("run_shell", thread[t].command,
                                       "execute_shell"))
  /\ thread' = [thread EXCEPT ![t].pc = "running",
                              ![t].events = Append(@, "run_shell")]
  /\ UNCHANGED << audit_log, audit_file, confirm_log, last, ncalls >>
  /\ ChildUnchanged

\* run_shell returns its result
ExecuteShellRan(t, outcome) ==
  /\ thread[t].pc = "running"
  /\ thread' = [thread EXCEPT
                  ![t].pc = "ran",
                  ![t].events = Append(@, "ran"),
                  ![t].result = run_shell(thread[t].command, outcome)]
  /\ UNCHANGED << audit_log, audit_file, backend_log, confirm_log, last,
                  ncalls >>
  /\ ChildUnchanged

\* step 4: the executed command is audited with the outcome of its result
ExecuteShellAudit(t) ==
  /\ thread[t].pc = "ran"
  /\ LET entry == AuditEntry(SHELL_COMMAND, thread[t].command, thread[t].risk,
                             IF thread[t].result.success THEN "success"
                             ELSE "failure", thread[t].from_llm)
         r == log_action(audit_log, audit_file, entry, TRUE)
     IN /\ audit_log' = r.log
        /\ audit_file' = r.file
        /\ thread' = [thread EXCEPT ![t].pc = "audited",
                                    ![t].events = Append(@, "audit"),
                                    ![t].audits = << entry >>]
  /\ UNCHANGED << backend_log, confirm_log, last, ncalls >>
  /\ ChildUnchanged

\* the backend's result is returned to the caller
ExecuteShellReturn(t) ==
  /\ thread[t].pc = "audited"
  /\ thread' = [thread EXCEPT ![t].pc = "returned",
                              ![t].events = Append(@, "return")]
  /\ UNCHANGED << audit_log, audit_file, backend_log, confirm_log, last,
                  ncalls >>
  /\ ChildUnchanged

\* One shell command through Orchestrator._execute_shell.  last.given is the
\* command as the Orchestrator received it, last.target the command handed to
\* the router, last.routed whether the router was called.
OrchestratorExecuteShell(command, from_llm, answer, router_answer, outcome) ==
  /\ orch.pc = "idle"
  /\ \E r \in {Orchestrator_execute_shell(Env, command, from_llm, answer,
                                          router_answer, outcome)} :
        /\ Commit(r)
        /\ last' = ("given" :> command) @@ ("routed" :> r.routed)
                    @@ ("out" :> r.out)
                    @@ Call("_execute_shell", r.command, from_llm, FALSE, Env, r)
  /\ ncalls' = ncalls + 1
  /\ UNCHANGED << blocklist, allowlist, execution_timestamps, now,
                  confirm_callback, rate_history >>
  /\ UNCHANGED << filterVars, parseVars, lookupVars, threadVars, orchVars >>

\* the clock advances by one second
Tick ==
  /\ now' = now + 1
  /\ UNCHANGED << blocklist, allowlist, audit_log, audit_file,
                  execution_timestamps, confirm_callback, backend_log,
                  confirm_log, ncalls, last, rate_history >>
  /\ UNCHANGED << filterVars, parseVars, lookupVars, threadVars, orchVars >>


(***************************************************************************)
(* One streamed response through the filter (Orchestrator._process_with_llm,*)
(* streaming path): the fragments are fed in arrival order, then flush.     *)
(***************************************************************************)
\* the boundary after the first p characters of s lies strictly inside an
\* occurrence of one of the four markers
InsideMarker(s, p) ==
  \E k \in 1..Len(TAGS), side \in 1..2 :
     \E i \in 1..(Len(s) - Len(TAGS[k][side]) + 1) :
        /\ SubSeq(s, i, i + Len(TAGS[k][side]) - 1) = TAGS[k][side]
        /\ i <= p
        /\ p < i + Len(TAGS[k][side]) - 1

\* a fragment that starts with a fresh lookahead buffer
Feed_FreshBuffer(n) ==
  /\ ~flushed
  /\ pos + n <= Len(stream)
  /\ LET r == feed([filt EXCEPT !.buf = << >>],
                   SubSeq(stream, pos + 1, pos + n))
     IN /\ filt' = r.f
        /\ display' = display \o r.out
  /\ pos' = pos + n
  /\ midmarker' = (midmarker \/ InsideMarker(stream, pos + n))
  /\ UNCHANGED << stream, flushed, dispatched >>
  /\ UNCHANGED << routerVars, parseVars, lookupVars, threadVars, orchVars >>

Feed(n) ==
  /\ ~flushed
  /\ pos + n <= Len(stream)
  /\ LET r == feed(filt, SubSeq(stream, pos + 1, pos + n))
     IN /\ filt' = r.f
        /\ display' = display \o r.out
  /\ pos' = pos + n
  /\ midmarker' = (midmarker \/ InsideMarker(stream, pos + n))
  /\ UNCHANGED << stream, flushed, dispatched >>
  /\ UNCHANGED << routerVars, parseVars, lookupVars, threadVars, orchVars >>

Flush ==
  /\ ~flushed
  /\ pos = Len(stream)
  /\ LET r == flush(filt)
     IN /\ filt' = r.f
        /\ display' = display \o r.out
        /\ dispatched' = DispatchOrder(r.f)
  /\ flushed' = TRUE
  /\ UNCHANGED << stream, pos, midmarker >>
  /\ UNCHANGED << routerVars, parseVars, lookupVars, threadVars, orchVars >>

\* One request through Orchestrator._process_with_llm, streaming path
\* (orchestrator.py:290-412): the response is streamed through a new filter,
\* the filter is flushed, the directives and then the commands are
\* dispatched, and a command whose output is an error starts a recovery, a
\* nested _process_with_llm call on a new response.
ProcessWithLlm(response) ==
  /\ orch.pc \in {"idle", "recover"}
  /\ stream' = response
  /\ pos' = 0
  /\ filt' = NewFilter
  /\ flushed' = FALSE
  /\ dispatched' = << >>
  /\ orch' = [orch EXCEPT !.pc = "streaming", !.abandoned = FALSE,
                          !.events = Append(@, Event("begin", << >>, ""))]
  /\ UNCHANGED << display, midmarker >>
  /\ UNCHANGED << routerVars, parseVars, lookupVars, threadVars >>

\* the next token of the response is fed to the filter
StreamToken(n) ==
  /\ orch.pc = "streaming"
  /\ n = Min(MaxToken, Len(stream) - pos)
  /\ n > 0
  /\ Feed(n)

\* the backend of the Brain raises while the response is streamed: the rest
\* of the response never arrives, generate_response_stream yields its error
\* token and ends, and the token is fed to the filter
ProducerFails ==
  /\ orch.pc = "streaming"
  /\ ~orch.abandoned
  /\ pos < Len(stream)
  /\ LET r == feed(filt, ErrorToken)
     IN /\ filt' = r.f
        /\ display' = display \o r.out
  /\ stream' = SubSeq(stream, 1, pos) \o ErrorToken
  /\ pos' = pos + Len(ErrorToken)
  /\ orch' = [orch EXCEPT !.abandoned = TRUE]
  /\ UNCHANGED << flushed, midmarker, dispatched >>
  /\ UNCHANGED << routerVars, parseVars, lookupVars, threadVars >>

\* the stream has ended: flush, and the filter's lists become the lists of
\* the two loops
EndOfStream ==
  /\ orch.pc = "streaming"
  /\ StreamEnded
  /\ LET r == flush(filt)
     IN /\ filt' = r.f
        /\ display' = display \o r.out
        /\ dispatched' = DispatchOrder(r.f)
        /\ orch' = [orch EXCEPT !.pc = "dispatch",
                                !.action_commands = r.f.action_commands,
                                !.shell_commands = r.f.shell_commands,
                                !.events =
                                   Append(@, Event("flush",
                                                   [action_commands |->
                                                      r.f.action_commands,
                                                    shell_commands |->
                                                      r.f.shell_commands],
                                                   ""))]
  /\ flushed' = TRUE
  /\ UNCHANGED << stream, pos, midmarker >>
  /\ UNCHANGED << routerVars, parseVars, lookupVars, threadVars >>

\* the loop over action_commands: the next directive is parsed and executed
\* through the router, or reported as unknown
DispatchAction(outcome) ==
  /\ orch.pc = "dispatch"
  /\ orch.action_commands # << >>
  /\ LET action_str == Strip(Head(orch.action_commands))
         action_req == parse_action_tag(action_str)
     IN IF action_str = << >> \/ action_req = None
        THEN /\ orch' = [orch EXCEPT
                           !.action_commands = Tail(@),
                           !.events = Append(@, Event("unknown", action_str,
                                                      "Unknown action"))]
             /\ UNCHANGED routerVars
        ELSE \E r \in {execute_action(Env, ToRequest(action_req), TRUE,
                                      outcome, TRUE)} :
               /\ Commit(r)
               /\ last' = Call("execute_action", ToRequest(action_req).target,
                               TRUE, FALSE, Env, r)
               /\ ncalls' = ncalls + 1
               /\ orch' = [orch EXCEPT
                             !.action_commands = Tail(@),
                             !.events = Append(@, Event("action", action_str,
                                                        r.result.message))]
               /\ UNCHANGED << blocklist, allowlist, execution_timestamps, now,
                               confirm_callback, rate_history >>
  /\ UNCHANGED << filterVars, parseVars, lookupVars, threadVars >>

\* the loop over shell_commands, entered when the directives are done: the
\* next command goes through _execute_shell, and an error output starts a
\* recovery
DispatchShell(outcome, approved) ==
  /\ orch.pc = "dispatch"
  /\ ShellLoopEntered
  /\ orch.shell_commands # << >>
  /\ LET cmd == Strip(Head(orch.shell_commands))
     IN \E r \in {Orchestrator_execute_shell(Env, Text(cmd), TRUE, TRUE,
                                             approved, outcome)} :
          /\ Commit(r)
          /\ last' = ("given" :> Text(cmd)) @@ ("routed" :> r.routed)
                      @@ ("out" :> r.out)
                      @@ Call("_execute_shell", r.command, TRUE, FALSE, Env, r)
          /\ IF ~Refused(r.out) /\ auto_recover(r.out, orch.depth)
             THEN /\ orch.depth < MaxDepth
                  /\ orch' = [orch EXCEPT
                                !.pc = "recover",
                                !.stack = Append(@, [shell_commands |->
                                                       Tail(orch.shell_commands),
                                                     depth |-> orch.depth]),
                                !.depth = @ + 1,
                                !.shell_commands = << >>,
                                !.events = Append(@, Event("recover", cmd,
                                                           r.out))]
             ELSE orch' = [orch EXCEPT
                             !.shell_commands = Tail(@),
                             !.events = Append(@, Event("shell", cmd, r.out))]
  /\ ncalls' = ncalls + 1
  /\ UNCHANGED << blocklist, allowlist, execution_timestamps, now,
                  confirm_callback, rate_history >>
  /\ UNCHANGED << filterVars, parseVars, lookupVars, threadVars >>

\* both loops are done: _process_with_llm returns, to the call that waits for
\* the recovery or to process_command
Return ==
  /\ orch.pc = "dispatch"
  /\ orch.action_commands = << >>
  /\ orch.shell_commands = << >>
  /\ orch' = IF orch.stack = << >>
             THEN [orch EXCEPT !.pc = "done",
                               !.events = Append(@, Event("return", << >>, ""))]
             ELSE [orch EXCEPT
                     !.shell_commands = orch.stack[Len(orch.stack)].shell_commands,
                     !.depth = orch.stack[Len(orch.stack)].depth,
                     !.stack = SubSeq(@, 1, Len(@) - 1),
                     !.events = Append(@, Event("return", << >>, ""))]
  /\ UNCHANGED << routerVars, filterVars, parseVars, lookupVars, threadVars >>

(***************************************************************************)
(* One risk assessment (SafetyEngine.assess_command), recorded with the     *)
(* lists it was made with.                                                  *)
(***************************************************************************)
AssessCommand(command) ==
  /\ last' = [op |-> "assess_command", target |-> command,
              risk |-> assess_command(command).risk,
              desc |-> assess_command(command).desc,
              blocklist |-> blocklist, allowlist |-> allowlist]
  /\ UNCHANGED << blocklist, allowlist, audit_log, audit_file,
                  execution_timestamps, now, confirm_callback, backend_log,
                  confirm_log, ncalls, rate_history >>
  /\ UNCHANGED << filterVars, parseVars, lookupVars, threadVars, orchVars >>

(***************************************************************************)
(* One [ACTION] directive of a response (Orchestrator._process_with_llm):   *)
(* parsed, then executed through the router or reported as unknown.         *)
(***************************************************************************)
ParseActionTag ==
  /\ handled = "new"
  /\ parsed' = parse_action_tag(directive)
  /\ handled' = "parsed"
  /\ UNCHANGED << directive >>
  /\ UNCHANGED << routerVars, filterVars, lookupVars, threadVars, orchVars >>

DispatchDirective(answer, outcome) ==
  /\ handled = "parsed"
  /\ IF parsed = None
     THEN /\ handled' = "unknown"
          /\ UNCHANGED << directive, parsed >>
          /\ UNCHANGED << routerVars, filterVars, lookupVars, threadVars, orchVars >>
     ELSE /\ handled' = "executed"
          /\ ExecuteAction(ToRequest(parsed), answer, outcome, TRUE)

(***************************************************************************)
(* One lookup of an application name (AppRegistry.resolve).                 *)
(***************************************************************************)
Resolve ==
  /\ ~resolved.done
  /\ resolved' = [done |-> TRUE, entry |-> resolve(query)]
  /\ UNCHANGED << query, registry >>
  /\ UNCHANGED << routerVars, filterVars, parseVars, threadVars, orchVars >>

(***************************************************************************)
(* Inputs                                                                   *)
(***************************************************************************)
Request(action_type, target, args) ==
  [action_type |-> action_type, target |-> target, args |-> args]

Requests ==
  {Request(LAUNCH_APP, "spotify", << >>),
   Request(OPEN_URL, "https://google.com", << >>),
   Request(SYSTEM_INFO, "", << >>),
   Request(NOTIFICATION, "title", << "message" >>),
   Request(FILE_READ, "notes.txt", << >>)}
  \cup {Request(SHELL_COMMAND, c, << >>) : c \in DirectiveCommands}

\* requests of the action types the router has no handler for, and of a type
\* outside ActionType
UnsupportedRequests ==
  {Request(FILE_READ, "notes.txt", << >>),
   Request(FILE_WRITE, "notes.txt", << "text" >>),
   Request(FILE_LIST, "C:/Users", << >>),
   Request("clipboard", "", << >>)}

\* the pieces responses are composed of: prose, a lone bracket, the markers
Pieces == { << "a" >>, << " " >>, << "[" >>,
            OPEN_SHELL, CLOSE_SHELL, OPEN_ACTION, CLOSE_ACTION }

\* responses of the filter's tests and of its contract
UnterminatedExample == << "A", " " >> \o OPEN_SHELL \o << "c", "m", "d" >>

SplitExample ==
  << "A", " " >> \o OPEN_SHELL \o << "c", "m", "d" >> \o CLOSE_SHELL
  \o << " ", "B" >>

MixedExample ==
  << "A", " " >> \o OPEN_SHELL \o << "c", "1" >> \o CLOSE_SHELL
  \o << " ", "B", " " >> \o OPEN_ACTION \o << " ", "x", " " >> \o CLOSE_ACTION
  \o OPEN_ACTION \o << "y" >> \o CLOSE_ACTION
  \o OPEN_SHELL \o << " " >> \o CLOSE_SHELL
  \o OPEN_SHELL \o << "c", "2" >> \o CLOSE_SHELL \o << " ", "C" >>

ExampleStreams == {UnterminatedExample, SplitExample, MixedExample}

\* directive bodies: a type word, a separator and a target, padded or not
TypeWords ==
  { << "l", "a", "u", "n", "c", "h", "_", "a", "p", "p" >>,
    << "o", "p", "e", "n", "_", "a", "p", "p" >>,
    << "o", "p", "e", "n" >>,
    << "o", "p", "e", "n", "_", "u", "r", "l" >>,
    << "u", "r", "l" >>,
    << "b", "r", "o", "w", "s", "e" >>,
    << "s", "h", "e", "l", "l" >>,
    << "r", "u", "n" >>,
    << "s", "y", "s", "t", "e", "m", "_", "i", "n", "f", "o" >>,
    << "s", "y", "s", "i", "n", "f", "o" >>,
    << "n", "o", "t", "i", "f", "y" >>,
    << "n", "o", "t", "i", "f", "i", "c", "a", "t", "i", "o", "n" >>,
    << "i", "n", "v", "a", "l", "i", "d", "_", "t", "y", "p", "e" >>,
    << "f", "i", "l", "e", "_", "r", "e", "a", "d" >>,
    << >>,
    << "L", "a", "u", "n", "c", "h", "_", "A", "p", "p" >>,
    << "O", "P", "E", "N" >> }

Separators == { << >>, << ":" >>, << " ", ":", " " >> }

Targets ==
  { << >>,
    << "x" >>,
    << "H", "e", "l", "l", "o", " ", "|", " ", "W", "o", "r", "l", "d" >>,
    << "a", "|", "b", "|", "c" >>,
    << "h", "t", "t", "p", "s", ":", "/", "/", "x", ".", "c", "o", "m" >>,
    << "f", "o", "r", "m", "a", "t", " ", "c", ":" >> }

Paddings == { << >>, << " " >> }

DirectiveBodies ==
  {pad \o w \o sep \o t \o pad :
     w \in TypeWords, sep \in Separators, t \in Targets, pad \in Paddings}

\* the names looked up: registered keys and aliases, misspellings (a letter
\* dropped, added or replaced), an unknown name and the empty name, in three
\* letter-casings, padded or not
Queries ==
  { << "n", "p", "q" >>,
    << " ", "n", "p", "q", " " >>,
    << "N", "P", "Q" >>,
    << "n", "o", "t", "e", "p", "a", "d", "+" >>,
    << "N", "o", "t", "e", "p", "a", "d", "+", " " >>,
    << "n", "x", "p" >>,
    << "n", "p" >>,
    << "n", "p", "p", "p" >>,
    << "c", "h", "r", "o", "m", "e" >>,
    << " ", "c", "h", "r", "o", "m", "e" >>,
    << "c", "h", "r", "o", "m", "e", " " >>,
    << " ", "c", "h", "r", "o", "m", "e", " " >>,
    << "C", "H", "R", "O", "M", "E" >>,
    << " ", "C", "H", "R", "O", "M", "E" >>,
    << "C", "H", "R", "O", "M", "E", " " >>,
    << " ", "C", "H", "R", "O", "M", "E", " " >>,
    << "C", "h", "r", "o", "m", "e" >>,
    << " ", "C", "h", "r", "o", "m", "e" >>,
    << "C", "h", "r", "o", "m", "e", " " >>,
    << " ", "C", "h", "r", "o", "m", "e", " " >>,
    << "g", "o", "o", "g", "l", "e", " ", "c", "h", "r", "o", "m", "e" >>,
    << " ", "g", "o", "o", "g", "l", "e", " ", "c", "h", "r", "o", "m", "e" >>,
    << "g", "o", "o", "g", "l", "e", " ", "c", "h", "r", "o", "m", "e", " " >>,
    << " ", "g", "o", "o", "g", "l", "e", " ", "c", "h", "r", "o", "m", "e", " " >>,
    << "G", "O", "O", "G", "L", "E", " ", "C", "H", "R", "O", "M", "E" >>,
    << " ", "G", "O", "O", "G", "L", "E", " ", "C", "H", "R", "O", "M", "E" >>,
    << "G", "O", "O", "G", "L", "E", " ", "C", "H", "R", "O", "M", "E", " " >>,
    << " ", "G", "O", "O", "G", "L", "E", " ", "C", "H", "R", "O", "M", "E", " " >>,
    << "G", "o", "o", "g", "l", "e", " ", "C", "h", "r", "o", "m", "e" >>,
    << " ", "G", "o", "o", "g", "l", "e", " ", "C", "h", "r", "o", "m", "e" >>,
    << "G", "o", "o", "g", "l", "e", " ", "C", "h", "r", "o", "m", "e", " " >>,
    << " ", "G", "o", "o", "g", "l", "e", " ", "C", "h", "r", "o", "m", "e", " " >>,
    << "c", "h", "r", "o", "m", "e", " ", "b", "r", "o", "w", "s", "e", "r" >>,
    << " ", "c", "h", "r", "o", "m", "e", " ", "b", "r", "o", "w", "s", "e", "r" >>,
    << "c", "h", "r", "o", "m", "e", " ", "b", "r", "o", "w", "s", "e", "r", " " >>,
    << " ", "c", "h", "r", "o", "m", "e", " ", "b", "r", "o", "w", "s", "e", "r", " " >>,
    << "C", "H", "R", "O", "M", "E", " ", "B", "R", "O", "W", "S", "E", "R" >>,
    << " ", "C", "H", "R", "O", "M", "E", " ", "B", "R", "O", "W", "S", "E", "R" >>,
    << "C", "H", "R", "O", "M", "E", " ", "B", "R", "O", "W", "S", "E", "R", " " >>,
    << " ", "C", "H", "R", "O", "M", "E", " ", "B", "R", "O", "W", "S", "E", "R", " " >>,
    << "C", "h", "r", "o", "m", "e", " ", "B", "r", "o", "w", "s", "e", "r" >>,
    << " ", "C", "h", "r", "o", "m", "e", " ", "B", "r", "o", "w", "s", "e", "r" >>,
    << "C", "h", "r", "o", "m", "e", " ", "B", "r", "o", "w", "s", "e", "r", " " >>,
    << " ", "C", "h", "r", "o", "m", "e", " ", "B", "r", "o", "w", "s", "e", "r", " " >>,
    << "n", "o", "t", "e", "p", "a", "d" >>,
    << " ", "n", "o", "t", "e", "p", "a", "d" >>,
    << "n", "o", "t", "e", "p", "a", "d", " " >>,
    << " ", "n", "o", "t", "e", "p", "a", "d", " " >>,
    << "N", "O", "T", "E", "P", "A", "D" >>,
    << " ", "N", "O", "T", "E", "P", "A", "D" >>,
    << "N", "O", "T", "E", "P", "A", "D", " " >>,
    << " ", "N", "O", "T", "E", "P", "A", "D", " " >>,
    << "N", "o", "t", "e", "p", "a", "d" >>,
    << " ", "N", "o", "t", "e", "p", "a", "d" >>,
    << "N", "o", "t", "e", "p", "a", "d", " " >>,
    << " ", "N", "o", "t", "e", "p", "a", "d", " " >>,
    << "n", "o", "t", "e", "p", "a", "d", "+", "+" >>,
    << " ", "n", "o", "t", "e", "p", "a", "d", "+", "+" >>,
    << "n", "o", "t", "e", "p", "a", "d", "+", "+", " " >>,
    << " ", "n", "o", "t", "e", "p", "a", "d", "+", "+", " " >>,
    << "N", "O", "T", "E", "P", "A", "D", "+", "+" >>,
    << " ", "N", "O", "T", "E", "P", "A", "D", "+", "+" >>,
    << "N", "O", "T", "E", "P", "A", "D", "+", "+", " " >>,
    << " ", "N", "O", "T", "E", "P", "A", "D", "+", "+", " " >>,
    << "N", "o", "t", "e", "p", "a", "d", "+", "+" >>,
    << " ", "N", "o", "t", "e", "p", "a", "d", "+", "+" >>,
    << "N", "o", "t", "e", "p", "a", "d", "+", "+", " " >>,
    << " ", "N", "o", "t", "e", "p", "a", "d", "+", "+", " " >>,
    << "n", "p", "p" >>,
    << " ", "n", "p", "p" >>,
    << "n", "p", "p", " " >>,
    << " ", "n", "p", "p", " " >>,
    << "N", "P", "P" >>,
    << " ", "N", "P", "P" >>,
    << "N", "P", "P", " " >>,
    << " ", "N", "P", "P", " " >>,
    << "N", "p", "p" >>,
    << " ", "N", "p", "p" >>,
    << "N", "p", "p", " " >>,
    << " ", "N", "p", "p", " " >>,
    << "s", "p", "o", "t", "i", "f", "y" >>,
    << " ", "s", "p", "o", "t", "i", "f", "y" >>,
    << "s", "p", "o", "t", "i", "f", "y", " " >>,
    << " ", "s", "p", "o", "t", "i", "f", "y", " " >>,
    << "S", "P", "O", "T", "I", "F", "Y" >>,
    << " ", "S", "P", "O", "T", "I", "F", "Y" >>,
    << "S", "P", "O", "T", "I", "F", "Y", " " >>,
    << " ", "S", "P", "O", "T", "I", "F", "Y", " " >>,
    << "S", "p", "o", "t", "i", "f", "y" >>,
    << " ", "S", "p", "o", "t", "i", "f", "y" >>,
    << "S", "p", "o", "t", "i", "f", "y", " " >>,
    << " ", "S", "p", "o", "t", "i", "f", "y", " " >>,
    << "m", "u", "s", "i", "c" >>,
    << " ", "m", "u", "s", "i", "c" >>,
    << "m", "u", "s", "i", "c", " " >>,
    << " ", "m", "u", "s", "i", "c", " " >>,
    << "M", "U", "S", "I", "C" >>,
    << " ", "M", "U", "S", "I", "C" >>,
    << "M", "U", "S", "I", "C", " " >>,
    << " ", "M", "U", "S", "I", "C", " " >>,
    << "M", "u", "s", "i", "c" >>,
    << " ", "M", "u", "s", "i", "c" >>,
    << "M", "u", "s", "i", "c", " " >>,
    << " ", "M", "u", "s", "i", "c", " " >>,
    << "n", "o", "t", "e", "p", "a" >>,
    << " ", "n", "o", "t", "e", "p", "a" >>,
    << "n", "o", "t", "e", "p", "a", " " >>,
    << " ", "n", "o", "t", "e", "p", "a", " " >>,
    << "N", "O", "T", "E", "P", "A" >>,
    << " ", "N", "O", "T", "E", "P", "A" >>,
    << "N", "O", "T", "E", "P", "A", " " >>,
    << " ", "N", "O", "T", "E", "P", "A", " " >>,
    << "N", "o", "t", "e", "p", "a" >>,
    << " ", "N", "o", "t", "e", "p", "a" >>,
    << "N", "o", "t", "e", "p", "a", " " >>,
    << " ", "N", "o", "t", "e", "p", "a", " " >>,
    << "s", "p", "o", "t", "f", "y" >>,
    << " ", "s", "p", "o", "t", "f", "y" >>,
    << "s", "p", "o", "t", "f", "y", " " >>,
    << " ", "s", "p", "o", "t", "f", "y", " " >>,
    << "S", "P", "O", "T", "F", "Y" >>,
    << " ", "S", "P", "O", "T", "F", "Y" >>,
    << "S", "P", "O", "T", "F", "Y", " " >>,
    << " ", "S", "P", "O", "T", "F", "Y", " " >>,
    << "S", "p", "o", "t", "f", "y" >>,
    << " ", "S", "p", "o", "t", "f", "y" >>,
    << "S", "p", "o", "t", "f", "y", " " >>,
    << " ", "S", "p", "o", "t", "f", "y", " " >>,
    << "x", "y", "z" >>,
    << " ", "x", "y", "z" >>,
    << "x", "y", "z", " " >>,
    << " ", "x", "y", "z", " " >>,
    << "X", "Y", "Z" >>,
    << " ", "X", "Y", "Z" >>,
    << "X", "Y", "Z", " " >>,
    << " ", "X", "Y", "Z", " " >>,
    << "X", "y", "z" >>,
    << " ", "X", "y", "z" >>,
    << "X", "y", "z", " " >>,
    << " ", "X", "y", "z", " " >>,
    << >>,
    << " " >>,
    << " ", " " >> }

RECURSIVE Flatten(_)
Flatten(ss) == IF ss = << >> THEN << >> ELSE Head(ss) \o Flatten(Tail(ss))

Range(seq) == {seq[i] : i \in DOMAIN seq}

ToolsCalls ==
  Len(SelectSeq(backend_log, LAMBDA c : c.caller = "execute_terminal_command"))

(***************************************************************************)
(* Specifications                                                           *)
(***************************************************************************)
InitRouter ==
  /\ blocklist = << >>
  /\ allowlist = << >>
  /\ audit_log = << >>
  /\ audit_file = << >>
  /\ execution_timestamps = << >>
  /\ now = 0
  /\ backend_log = << >>
  /\ confirm_log = << >>
  /\ ncalls = 0
  /\ last = NoCall
  /\ rate_history = << >>

InitFilter ==
  /\ pos = 0
  /\ filt = NewFilter
  /\ display = << >>
  /\ flushed = FALSE
  /\ midmarker = FALSE
  /\ dispatched = << >>

InitParse ==
  /\ parsed = None
  /\ handled = "new"

\* no Orchestrator has been constructed
NoOrchestrator == [pc |-> "none"]

\* no command is being processed
InitQuiet ==
  /\ logged = << >>
  /\ thread = [t \in Threads |-> Idle]
  /\ confirm_event = FALSE
  /\ confirm_result = FALSE
  /\ dialogs = << >>
  /\ delivered = << >>
  /\ orch = NoOrchestrator

InitLookup ==
  /\ registry = RegistryFile
  /\ resolved = [done |-> FALSE, entry |-> NoEntry]

\* the router with its safety engine and the tools, called in any order; an
\* entry is added to the blocklist or the allowlist at most once
Init ==
  /\ InitRouter
  /\ confirm_callback \in BOOLEAN
  /\ InitFilter
  /\ stream = << >>
  /\ InitParse
  /\ directive = << >>
  /\ InitLookup
  /\ InitQuiet
  /\ query = << >>

Next ==
  \/ /\ ncalls < MaxCalls
     /\ \E command \in Commands, from_llm \in BOOLEAN, answer \in BOOLEAN,
           outcome \in BackendOutcomes :
          ExecuteShell(command, from_llm, answer, outcome, TRUE)
  \/ /\ ncalls < MaxCalls
     /\ \E request \in Requests, answer \in BOOLEAN,
           outcome \in BackendOutcomes :
          /\ ExecuteAction(request, answer, outcome, TRUE)
          /\ UNCHANGED handled
  \/ /\ ncalls < MaxCalls
     /\ \E command \in ToolCommands, outcome \in BackendOutcomes :
          ToolsExecuteTerminalCommand(command, outcome)
  \/ \E b \in BlockStrings \ Range(blocklist) : AddToBlocklist(b)
  \/ \E a \in AllowPatterns \ Range(allowlist) : AddToAllowlist(a)

Spec == Init /\ [][Next]_vars


(***************************************************************************)
(* The rate limiter over time: should_block called at any moments.          *)
(***************************************************************************)
MaxRateCalls == 7    \* should_block calls in one behaviour of SpecRate
MaxTime == 11        \* seconds the clock runs in SpecRate

RateCommands == {"echo hello", "format c:"}

InitRate ==
  /\ InitRouter
  /\ confirm_callback = TRUE
  /\ InitFilter
  /\ stream = << >>
  /\ InitParse
  /\ directive = << >>
  /\ InitLookup
  /\ InitQuiet
  /\ query = << >>

NextRate ==
  \/ /\ ncalls < MaxRateCalls
     /\ \E command \in RateCommands : ShouldBlock(command)
  \/ /\ now < MaxTime
     /\ Tick

SpecRate == InitRate /\ [][NextRate]_vars

(***************************************************************************)
(* A burst: commands submitted in quick succession, to the router and to    *)
(* the safety engine's block decision.                                      *)
(***************************************************************************)
MaxBurst == 6        \* calls in one behaviour of SpecBurst

NextBurst ==
  \/ /\ ncalls < MaxBurst
     /\ \E command \in RateCommands : ShouldBlock(command)
  \/ /\ ncalls < MaxBurst
     /\ \E command \in RateCommands :
          ExecuteShell(command, TRUE, FALSE, "success", TRUE)

SpecBurst == InitRate /\ [][NextBurst]_vars

(***************************************************************************)
(* One streamed response, split into fragments at any boundaries.           *)
(***************************************************************************)
InitStream ==
  /\ InitRouter
  /\ confirm_callback = TRUE
  /\ InitFilter
  /\ \/ \E n \in 0..MaxPieces :
          \E ps \in [1..n -> Pieces] : stream = Flatten(ps)
     \/ stream \in ExampleStreams
  /\ InitParse
  /\ directive = << >>
  /\ InitLookup
  /\ InitQuiet
  /\ query = << >>

NextStream ==
  \/ \E n \in 1..MaxFrag : Feed(n)
  \/ Flush

SpecStream == InitStream /\ [][NextStream]_vars

(***************************************************************************)
(* One [ACTION] directive: parse_action_tag, then the router.               *)
(***************************************************************************)
InitDirective ==
  /\ InitRouter
  /\ confirm_callback \in BOOLEAN
  /\ InitFilter
  /\ stream = << >>
  /\ InitParse
  /\ directive \in DirectiveBodies
  /\ InitLookup
  /\ InitQuiet
  /\ query = << >>

NextDirective ==
  \/ ParseActionTag
  \/ \E answer \in BOOLEAN, outcome \in BackendOutcomes :
       DispatchDirective(answer, outcome)

SpecDirective == InitDirective /\ [][NextDirective]_vars

(***************************************************************************)
(* Structured requests of every action type handed to execute_action.       *)
(***************************************************************************)
MaxActionCalls == 2  \* execute_action calls in one behaviour of SpecAction

NextAction ==
  /\ ncalls < MaxActionCalls
  /\ \E request \in Requests \cup UnsupportedRequests, answer \in BOOLEAN,
        outcome \in BackendOutcomes :
       ExecuteAction(request, answer, outcome, TRUE)
  /\ UNCHANGED handled

SpecAction == Init /\ [][NextAction]_vars

(***************************************************************************)
(* The risk assessment under any configuration of the two lists: entries    *)
(* are added in any order, each at most once, and commands are assessed.    *)
(***************************************************************************)
NextAssess ==
  \/ \E command \in AssessCommands : AssessCommand(command)
  \/ \E b \in AssessBlockStrings \ Range(blocklist) : AddToBlocklist(b)
  \/ \E a \in AssessAllowPatterns \ Range(allowlist) : AddToAllowlist(a)

SpecAssess == InitRate /\ [][NextAssess]_vars

(***************************************************************************)
(* One lookup in the application registry.                                  *)
(***************************************************************************)
InitResolve ==
  /\ InitRouter
  /\ confirm_callback = TRUE
  /\ InitFilter
  /\ stream = << >>
  /\ InitParse
  /\ directive = << >>
  /\ InitLookup
  /\ InitQuiet
  /\ query \in Queries

NextResolve == Resolve

SpecResolve == InitResolve /\ [][NextResolve]_vars

\* The audit trail on its own: log_action and get_audit_log, starting from
\* an empty trail or from one that is one entry short of its capacity.
MaxLogCalls == 3

\* the i-th entry of a trail written earlier, one entry per second
Earlier(i) ==
  [timestamp |-> i, action_type |-> "shell",
   target |-> IF i % 2 = 1 THEN "echo hello" ELSE "curl https://example.com",
   risk |-> LOW, outcome |-> "success", from_llm |-> FALSE]

EarlierTrail(n) == [i \in 1..n |-> Earlier(i)]

LogTargets == {"echo hello", "format c:"}

Limits == {0, 1, 20, 250}

InitAudit ==
  /\ blocklist = << >>
  /\ allowlist = << >>
  /\ \E n \in {0, max_audit - 1} :
        /\ audit_log = EarlierTrail(n)
        /\ audit_file = EarlierTrail(n)
        /\ logged = EarlierTrail(n)
        /\ now = n
  /\ execution_timestamps = << >>
  /\ backend_log = << >>
  /\ confirm_log = << >>
  /\ ncalls = 0
  /\ last = NoCall
  /\ rate_history = << >>
  /\ confirm_callback = TRUE
  /\ InitFilter
  /\ stream = << >>
  /\ InitParse
  /\ directive = << >>
  /\ InitLookup
  /\ query = << >>
  /\ thread = [t \in Threads |-> Idle]
  /\ confirm_event = FALSE
  /\ confirm_result = FALSE
  /\ dialogs = << >>
  /\ delivered = << >>
  /\ orch = NoOrchestrator

NextAudit ==
  \/ /\ ncalls < MaxLogCalls
     /\ \E target \in LogTargets, io_ok \in BOOLEAN :
           LogAction("shell", target, assess_command(target).risk,
                     IF assess_command(target).risk = CRITICAL
                     THEN "blocked" ELSE "success",
                     FALSE, io_ok)
  \/ \E limit \in Limits : GetAuditLog(limit)

SpecAudit == InitAudit /\ [][NextAudit]_vars

\* log_action called by two command threads at once, on a trail that is
\* empty, one short of its capacity or full.
MaxThreadCalls == 3

InitLogRace ==
  /\ blocklist = << >>
  /\ allowlist = << >>
  /\ \E n \in {0, max_audit - 1, max_audit} :
        /\ audit_log = EarlierTrail(n)
        /\ audit_file = EarlierTrail(n)
        /\ logged = EarlierTrail(n)
        /\ now = n
  /\ execution_timestamps = << >>
  /\ backend_log = << >>
  /\ confirm_log = << >>
  /\ ncalls = 0
  /\ last = NoCall
  /\ rate_history = << >>
  /\ confirm_callback = TRUE
  /\ InitFilter
  /\ stream = << >>
  /\ InitParse
  /\ directive = << >>
  /\ InitLookup
  /\ query = << >>
  /\ thread = [t \in Threads |-> Idle]
  /\ confirm_event = FALSE
  /\ confirm_result = FALSE
  /\ dialogs = << >>
  /\ delivered = << >>
  /\ orch = NoOrchestrator

NextLogRace ==
  \E t \in Threads :
     \/ /\ ncalls < MaxThreadCalls
        /\ LogActionEntry(t, "echo hello")
     \/ LogActionAppend(t)
     \/ LogActionTest(t)
     \/ LogActionSlice(t)
     \/ LogActionAssign(t)
     \/ LogActionWrite(t, TRUE)

SpecLogRace == InitLogRace /\ [][NextLogRace]_vars

\* Two command threads, each with a High-risk command of its own, and the UI
\* thread.
ConfirmCommand(t) == IF t = 1 THEN "shutdown /s" ELSE "wsl -- echo hello"

InitHandoff ==
  /\ InitRouter
  /\ confirm_callback = TRUE
  /\ InitFilter
  /\ stream = << >>
  /\ InitParse
  /\ directive = << >>
  /\ InitLookup
  /\ query = << >>
  /\ logged = << >>
  /\ thread = [t \in Threads \cup {UI} |-> Idle]
  /\ confirm_event = FALSE
  /\ confirm_result = FALSE
  /\ dialogs = << >>
  /\ delivered = << >>
  /\ orch = NoOrchestrator

NextHandoff ==
  \/ \E t \in Threads :
        \/ RequestConfirmationReset(t, ConfirmCommand(t))
        \/ RequestConfirmationClear(t)
        \/ RequestConfirmationEmit(t)
        \/ RequestConfirmationWait(t)
        \/ \E outcome \in BackendOutcomes : RequestConfirmationReturn(t, outcome)
  \/ \E i \in DOMAIN dialogs, approved \in BOOLEAN : UiDecide(i, approved)
  \/ OnConfirmResponseResult
  \/ OnConfirmResponseSet

SpecHandoff == InitHandoff /\ [][NextHandoff]_vars

\* Scheduling: a running thread keeps running (the operating system schedules
\* every thread that can run), and the user answers every dialog on screen.
HandoffFairness ==
  /\ \A t \in Threads :
        /\ WF_vars(RequestConfirmationClear(t))
        /\ WF_vars(RequestConfirmationEmit(t))
        /\ WF_vars(RequestConfirmationWait(t))
        /\ WF_vars(\E outcome \in BackendOutcomes : RequestConfirmationReturn(t, outcome))
  /\ WF_vars(\E i \in DOMAIN dialogs, approved \in BOOLEAN : UiDecide(i, approved))
  /\ WF_vars(OnConfirmResponseResult)
  /\ WF_vars(OnConfirmResponseSet)

SpecHandoffFair == SpecHandoff /\ HandoffFairness

\* every command that asks for confirmation gets its answer
EveryRequestReturns ==
  \A t \in Threads : (thread[t].pc # "idle") ~> (thread[t].pc = "returned")

\* Commands that pass the gate, run by two command threads, with their child
\* processes.
ChildCommands == {"echo hello", "shutdown /s"}

NextChild ==
  \E t \in Threads :
     \/ \E command \in ChildCommands, from_llm \in BOOLEAN, answer \in BOOLEAN :
           RunShellStart(t, command, from_llm, answer)
     \/ \E outcome \in BackendOutcomes : ChildExits(t, outcome)
     \/ TimeoutExpired(t)
     \/ RunShellReturn(t)

SpecChild == InitRate /\ [][NextChild]_vars

\* should_block called by two command threads at once.
MaxRaceCalls == 6
MaxRaceTime == 1

NextRateRace ==
  \/ \E t \in Threads :
        \/ /\ ncalls < MaxRaceCalls
           /\ ShouldBlockClock(t, "echo hello")
        \/ ShouldBlockFilter(t)
        \/ ShouldBlockStore(t)
        \/ ShouldBlockTest(t)
        \/ ShouldBlockAppend(t)
  \/ /\ now < MaxRaceTime
     /\ Tick

SpecRateRace == InitRate /\ [][NextRateRace]_vars

\* Router calls during which the append to logs/audit.jsonl may fail.
MaxDurableCalls == 2

DurableCommands == {"echo hello", "shutdown /s", "format c:"}

DurableRequests ==
  {Request(LAUNCH_APP, "spotify", << >>),
   Request(FILE_READ, "notes.txt", << >>),
   Request(SHELL_COMMAND, "shutdown /s", << >>)}

NextDurable ==
  \/ /\ ncalls < MaxDurableCalls
     /\ \E command \in DurableCommands, from_llm \in BOOLEAN,
           answer \in BOOLEAN, outcome \in BackendOutcomes, io_ok \in BOOLEAN :
          ExecuteShell(command, from_llm, answer, outcome, io_ok)
  \/ /\ ncalls < MaxDurableCalls
     /\ \E request \in DurableRequests, answer \in BOOLEAN,
           outcome \in BackendOutcomes, io_ok \in BOOLEAN :
          /\ ExecuteAction(request, answer, outcome, io_ok)
          /\ UNCHANGED handled

SpecDurable == InitRate /\ [][NextDurable]_vars

\* Router calls in which the backend may fail or time out, on commands of
\* every risk and requests of every type.
MaxFailureCalls == 2

NextFailures ==
  \/ /\ ncalls < MaxFailureCalls
     /\ \E command \in DurableCommands, from_llm \in BOOLEAN,
           answer \in BOOLEAN, outcome \in ShellOutcomes :
          ExecuteShell(command, from_llm, answer, outcome, TRUE)
  \/ /\ ncalls < MaxFailureCalls
     /\ \E request \in Requests \cup UnsupportedRequests, answer \in BOOLEAN,
           outcome \in ShellOutcomes :
          /\ ExecuteAction(request, answer, outcome, TRUE)
          /\ UNCHANGED handled

SpecFailures == Init /\ [][NextFailures]_vars

\* execute_shell run statement by statement by the command threads, on
\* commands of every risk, with and without a registered callback.
NextPipeline ==
  \E t \in Threads :
     \/ \E command \in DurableCommands, from_llm \in BOOLEAN :
          ExecuteShellAssess(t, command, from_llm)
     \/ ExecuteShellBlock(t)
     \/ \E answer \in BOOLEAN : ExecuteShellConfirm(t, answer)
     \/ ExecuteShellDeny(t)
     \/ ExecuteShellRun(t)
     \/ \E outcome \in ShellOutcomes : ExecuteShellRan(t, outcome)
     \/ ExecuteShellAudit(t)
     \/ ExecuteShellReturn(t)

SpecPipeline == Init /\ [][NextPipeline]_vars

\* One request whose response, and the responses of its recoveries, hold
\* directives and commands in any interleaving; the producer of a response
\* may fail after any token.
ShellTag(cmd) == OPEN_SHELL \o cmd \o CLOSE_SHELL
ActionTag(body) == OPEN_ACTION \o body \o CLOSE_ACTION

\* [SHELL]shutdown /s[/SHELL][ACTION]open: x[/ACTION][SHELL]format c:[/SHELL]
\* [ACTION]zz[/ACTION][ACTION]shell: format c:[/ACTION]
InterleavedResponse ==
  ShellTag(<< "s", "h", "u", "t", "d", "o", "w", "n", " ", "/", "s" >>)
  \o ActionTag(<< "o", "p", "e", "n", ":", " ", "x" >>)
  \o ShellTag(<< "f", "o", "r", "m", "a", "t", " ", "c", ":" >>)
  \o ActionTag(<< "z", "z" >>)
  \o ActionTag(<< "s", "h", "e", "l", "l", ":", " ",
                  "f", "o", "r", "m", "a", "t", " ", "c", ":" >>)

Responses ==
  { InterleavedResponse,
    << "a", " " >> \o ShellTag(<< "x" >>) \o ShellTag(<< "a" >>) }

RecoveryResponses ==
  { << "a" >>,
    ShellTag(<< "x" >>),
    ShellTag(<< "f", "o", "r", "m", "a", "t", " ", "c", ":" >>) \o << "a" >> }

InitRequest ==
  /\ InitRouter
  /\ confirm_callback = TRUE
  /\ InitFilter
  /\ stream = << >>
  /\ InitParse
  /\ directive = << >>
  /\ InitLookup
  /\ query = << >>
  /\ logged = << >>
  /\ thread = [t \in Threads |-> Idle]
  /\ confirm_event = FALSE
  /\ confirm_result = FALSE
  /\ dialogs = << >>
  /\ delivered = << >>
  /\ orch = NewOrchestrator(FALSE, FALSE, TRUE)

NextRequest ==
  \/ \E response \in Responses :
       orch.pc = "idle" /\ ProcessWithLlm(response)
  \/ \E response \in RecoveryResponses :
       orch.pc = "recover" /\ ProcessWithLlm(response)
  \/ \E n \in 1..MaxToken : StreamToken(n)
  \/ ProducerFails
  \/ EndOfStream
  \/ \E outcome \in BackendOutcomes : DispatchAction(outcome)
  \/ \E outcome \in ShellOutcomes, approved \in BOOLEAN :
       DispatchShell(outcome, approved)
  \/ Return

SpecRequest == InitRequest /\ [][NextRequest]_vars

\* Shell commands of every risk through an Orchestrator in each combination
\* of confirmation mode, WSL mode and a wired or missing UI callback.
MaxShellCalls == 2

InitModes ==
  /\ InitRouter
  /\ confirm_callback = TRUE
  /\ InitFilter
  /\ stream = << >>
  /\ InitParse
  /\ directive = << >>
  /\ InitLookup
  /\ query = << >>
  /\ logged = << >>
  /\ thread = [t \in Threads |-> Idle]
  /\ confirm_event = FALSE
  /\ confirm_result = FALSE
  /\ dialogs = << >>
  /\ delivered = << >>
  /\ \E confirmation_mode \in BOOLEAN, wsl_mode \in BOOLEAN,
        callback \in BOOLEAN :
        orch = NewOrchestrator(confirmation_mode, wsl_mode, callback)

NextModes ==
  /\ ncalls < MaxShellCalls
  /\ \E command \in DurableCommands, from_llm \in BOOLEAN, answer \in BOOLEAN,
        router_answer \in BOOLEAN, outcome \in ShellOutcomes :
        OrchestratorExecuteShell(command, from_llm, answer, router_answer,
                                 outcome)

SpecModes == InitModes /\ [][NextModes]_vars

\* Lookups in registries loaded from files in which a later entry repeats a
\* name of an earlier one: an alias of another entry ("music", "NPP"), the
\* canonical key of another entry as an alias ("notepad"), and an alias of
\* another entry as canonical key ("note pad").
CollidingEntries ==
  << AppEntry(<< "v", "l", "c" >>, "VLC",
              << << "m", "u", "s", "i", "c" >>, << "N", "P", "P" >> >>, "exe"),
     AppEntry(<< "e", "d", "i", "t", "o", "r" >>, "Editor",
              << << "n", "o", "t", "e", "p", "a", "d" >> >>, "exe"),
     AppEntry(<< "n", "o", "t", "e", " ", "p", "a", "d" >>, "Note Pad", << >>, "uri") >>

RegistryFiles ==
  {RegistryFile} \cup {RegistryFile \o << CollidingEntries[i] >> : i \in DOMAIN CollidingEntries}

InitLoad ==
  /\ InitRouter
  /\ confirm_callback = TRUE
  /\ InitFilter
  /\ stream = << >>
  /\ InitParse
  /\ directive = << >>
  /\ registry \in RegistryFiles
  /\ InitQuiet
  /\ resolved = [done |-> FALSE, entry |-> NoEntry]
  /\ query \in Queries

NextLoad == Resolve

SpecLoad == InitLoad /\ [][NextLoad]_vars


(***************************************************************************)
(* Properties of the Action Router's safety gate                            *)
(***************************************************************************)
RunShellResults(command) == {run_shell(command, o) : o \in ShellOutcomes}

\* C1: a command assessed Critical never reaches backend.run_shell through
\* execute_shell, whatever its origin and whatever the callback would answer;
\* the call returns a failure carrying the reason and appends exactly one
\* audit entry, with outcome 'blocked'.
C1_CriticalNeverRuns ==
  (last.op = "execute_shell" /\ last.risk = CRITICAL) =>
    /\ last.run_shell = 0
    /\ last.backend = 0
    /\ ~last.result.success
    /\ last.result.error = last.desc
    /\ Len(last.audits) = 1
    /\ last.audits[1].outcome = "blocked"
    /\ last.audits[1].target = last.target

\* a typed (not model-generated) Critical command was submitted to a router
\* whose confirmation callback is registered, and was blocked
C1_Witness ==
  /\ last.op = "execute_shell"
  /\ last.risk = CRITICAL
  /\ ~last.from_llm
  /\ confirm_callback
  /\ last.audits # << >>

\* C2: for a command assessed High, with a callback registered, the callback
\* is asked once with the command text and backend.run_shell is called iff it
\* answered true: on false the result is a failure, one 'denied' entry is
\* appended and the backend is not called; on true the backend is called
\* exactly once and its result is returned.
C2_HighRunsIffConfirmed ==
  (last.op = "execute_shell" /\ last.risk = HIGH /\ confirm_callback) =>
    /\ Len(last.confirms) = 1
    /\ last.confirms[1].command = last.target
    /\ IF last.confirms[1].answer
       THEN /\ last.run_shell = 1
            /\ last.backend = 1
            /\ last.result \in RunShellResults(last.target)
       ELSE /\ last.run_shell = 0
            /\ last.backend = 0
            /\ ~last.result.success
            /\ Len(last.audits) = 1
            /\ last.audits[1].outcome = "denied"

\* a High command was approved by the callback and ran
C2_Witness ==
  /\ last.op = "execute_shell"
  /\ last.risk = HIGH
  /\ last.confirms # << >>
  /\ last.confirms[1].answer
  /\ last.run_shell = 1
  /\ last.result.success

\* C3: without a registered callback a command that requires confirmation is
\* denied: the call returns a failure, audits 'denied' and never calls
\* backend.run_shell.
C3_NoCallbackDenies ==
  (last.op = "execute_shell" /\ last.risk = HIGH /\ ~confirm_callback) =>
    /\ ~last.result.success
    /\ last.run_shell = 0
    /\ last.backend = 0
    /\ Len(last.audits) = 1
    /\ last.audits[1].outcome = "denied"

\* a High command was submitted to a router without callback
C3_Witness ==
  /\ last.op = "execute_shell"
  /\ last.risk = HIGH
  /\ ~confirm_callback
  /\ last.result.message = "Command cancelled (requires confirmation)"

\* the execute_shell and execute_action calls made so far
RouterCalls == ncalls - ToolsCalls


\* C4: every execute_shell / execute_action call appends exactly one audit
\* entry, so after N calls the trail holds N entries (at most the capacity),
\* each with an outcome in {success, failure, blocked, denied}.
C4_OneAuditPerCall ==
  /\ last.op \in {"execute_shell", "execute_action"} => Len(last.audits) = 1
  /\ Len(audit_log) = Min(RouterCalls, max_audit)
  /\ \A i \in DOMAIN audit_log :
       audit_log[i].outcome \in {"success", "failure", "blocked", "denied"}

\* C5: every call of backend.run_shell is made by ActionRouter.execute_shell
\* (after its block and confirmation checks); no other component calls it.
C5_SinglePathToRunShell ==
  \A i \in DOMAIN backend_log :
    backend_log[i].op = "run_shell" => backend_log[i].caller = "execute_shell"

\* run_shell calls made by execute_shell so far
GatedRuns ==
  Len(SelectSeq(backend_log,
                LAMBDA c : c.op = "run_shell" /\ c.caller = "execute_shell"))

\* C6: execute_shell starts with the block check: a command for which the
\* Safety Engine's block decision is true (Critical, or rate limiter tripped)
\* is audited 'blocked', fails and never reaches backend.run_shell; so of a
\* burst of commands in quick succession at most the rate limit reach the
\* backend.
C6_BlockDecisionGates ==
  /\ (last.op = "execute_shell" /\ last.must_block) =>
       /\ last.run_shell = 0
       /\ ~last.result.success
       /\ Len(last.audits) = 1
       /\ last.audits[1].outcome = "blocked"
  /\ GatedRuns <= RATE_LIMIT

\* C7: a command assessed Low or Medium is handed to backend.run_shell
\* directly, exactly once, and the confirmation callback is not invoked.
C7_LowMediumRunDirectly ==
  (last.op = "execute_shell" /\ last.risk \in {LOW, MEDIUM}) =>
    /\ last.run_shell = 1
    /\ last.backend = 1
    /\ last.confirms = << >>
    /\ last.result \in RunShellResults(last.target)

\* a Medium command ran although a callback is registered
C7_Witness ==
  /\ last.op = "execute_shell"
  /\ last.risk = MEDIUM
  /\ confirm_callback
  /\ last.run_shell = 1


(***************************************************************************)
(* Properties of the rate limiter                                           *)
(***************************************************************************)
\* of the should_block calls before the latest one, those that were admitted
\* (not answered "rate limit exceeded") within the window that trails it
AdmittedBefore ==
  LET n == Len(rate_history)
  IN Cardinality({i \in 1..(n - 1) :
                    /\ ~rate_history[i].limited
                    /\ rate_history[n].t - rate_history[i].t < RATE_WINDOW})

FirstOpening(s) ==
  LET a == IndexOf(OPEN_SHELL, s)
      b == IndexOf(OPEN_ACTION, s)
  IN IF a = 0 THEN b ELSE IF b = 0 THEN a ELSE Min(a, b)

ClosingOf(open) == IF open = OPEN_SHELL THEN CLOSE_SHELL ELSE CLOSE_ACTION

OpeningAt(s, i) ==
  IF SubSeq(s, i, i + Len(OPEN_SHELL) - 1) = OPEN_SHELL
  THEN OPEN_SHELL ELSE OPEN_ACTION

\* the text s with every complete marker span removed, spans taken leftmost
\* first; text from an opening marker without closing marker on is kept
RECURSIVE RemoveSpans(_)
RemoveSpans(s) ==
  LET i == FirstOpening(s)
  IN IF i = 0 THEN s
     ELSE LET open == OpeningAt(s, i)
              rest == SubSeq(s, i + Len(open), Len(s))
              j == IndexOf(ClosingOf(open), rest)
          IN IF j = 0 THEN s
             ELSE SubSeq(s, 1, i - 1)
                  \o RemoveSpans(SubSeq(rest, j + Len(ClosingOf(open)),
                                        Len(rest)))

\* every opening marker of s, spans taken leftmost first, has its closing
\* marker
RECURSIVE AllTerminated(_)
AllTerminated(s) ==
  LET i == FirstOpening(s)
  IN IF i = 0 THEN TRUE
     ELSE LET open == OpeningAt(s, i)
              rest == SubSeq(s, i + Len(open), Len(s))
              j == IndexOf(ClosingOf(open), rest)
          IN IF j = 0 THEN FALSE
             ELSE AllTerminated(SubSeq(rest, j + Len(ClosingOf(open)),
                                       Len(rest)))

\* C9: for every stream and every fragmentation, the display outputs of all
\* feeds plus the final flush, concatenated, equal the stream with every
\* complete [SHELL]...[/SHELL] and [ACTION]...[/ACTION] span removed and the
\* rest verbatim.  (Stated for the streams whose tags are all terminated.)
C9_DisplayIsStreamWithoutSpans ==
  (flushed /\ AllTerminated(stream)) => display = RemoveSpans(stream)

\* C10: no marker text reaches the display channel.  (Stated for the opening
\* markers [SHELL] and [ACTION].)
C10_NoMarkerInDisplay ==
  /\ ~Contains(OPEN_SHELL, display)
  /\ ~Contains(OPEN_ACTION, display)


\* the filter run on the text s alone, fed as one fragment and flushed
Whole(s) ==
  LET a == feed(NewFilter, s)
      b == flush(a.f)
  IN [f |-> b.f, display |-> a.out \o b.out]

\* the text of the stream before the opening marker of the tag the filter is
\* inside of
BeforeOpenTag ==
  SubSeq(stream, 1, Len(stream) - Len(filt.tag_buf) - Len(filt.tag_type))

\* C11: a tag still open at the end of the stream is never executed: flush
\* discards the content accumulated inside it, the opening marker and that
\* content add nothing to shell_commands, action_commands or the directives
\* taken for execution, and the display is what the text before the opening
\* marker gives ("A [SHELL]cmd" gives "A " and nothing extracted).
C11_OpenTagNeverExecuted ==
  (flushed /\ filt.in_tag) =>
     LET alone == Whole(BeforeOpenTag)
     IN /\ stream = BeforeOpenTag \o filt.tag_type \o filt.tag_buf
        /\ display = alone.display
        /\ filt.shell_commands = alone.f.shell_commands
        /\ filt.action_commands = alone.f.action_commands
        /\ dispatched = DispatchOrder(alone.f)
        /\ (stream = UnterminatedExample) =>
              /\ display = << "A", " " >>
              /\ filt.shell_commands = << >>
              /\ filt.action_commands = << >>
              /\ dispatched = << >>

C11_Witness ==
  /\ flushed
  /\ filt.in_tag
  /\ stream = UnterminatedExample
  /\ filt.tag_buf = << "c", "m", "d" >>
  /\ display = << "A", " " >>

\* C12: the result of the filter does not depend on the fragment boundaries:
\* for every stream and every split of it, also inside a marker, the
\* concatenated display and both extraction lists are those of the stream
\* fed as one fragment; "A [SHELL]cmd[/SHELL] B" gives display "A  B" and
\* shell_commands == ["cmd"].
C12_FragmentBoundariesIrrelevant ==
  flushed =>
     LET one == Whole(stream)
     IN /\ display = one.display
        /\ filt.shell_commands = one.f.shell_commands
        /\ filt.action_commands = one.f.action_commands
        /\ (stream = SplitExample) =>
              /\ display = << "A", " ", " ", "B" >>
              /\ filt.shell_commands = << << "c", "m", "d" >> >>
              /\ filt.action_commands = << >>

C12_Witness ==
  /\ flushed
  /\ midmarker
  /\ stream = SplitExample
  /\ filt.shell_commands = << << "c", "m", "d" >> >>

\* C13: a tag-free string (no complete opening marker; '[' and partial
\* markers allowed), fed in fragments split anywhere, comes out exactly as the
\* concatenation of the feed outputs and the flush output, and both
\* extraction lists stay empty.
C13_TagFreePassesThrough ==
  (flushed /\ ~Contains(OPEN_SHELL, stream) /\ ~Contains(OPEN_ACTION, stream))
    => /\ display = stream
       /\ filt.shell_commands = << >>
       /\ filt.action_commands = << >>

C13_Witness ==
  /\ flushed
  /\ stream = << "a", " ", "[" >>
  /\ display = stream

\* the trimmed, non-empty bodies of the complete tags of the given kind in s,
\* in order of appearance, tags taken leftmost first
RECURSIVE Bodies(_, _)
Bodies(s, kind) ==
  LET i == FirstOpening(s)
  IN IF i = 0 THEN << >>
     ELSE LET open == OpeningAt(s, i)
              rest == SubSeq(s, i + Len(open), Len(s))
              j == IndexOf(ClosingOf(open), rest)
          IN IF j = 0 THEN << >>
             ELSE LET body == Strip(SubSeq(rest, 1, j - 1))
                      after == SubSeq(rest, j + Len(ClosingOf(open)), Len(rest))
                  IN (IF open = kind /\ body # << >> THEN << body >> ELSE << >>)
                     \o Bodies(after, kind)

\* C14: for a stream with several complete tags of both kinds in any
\* interleaving, shell_commands is the sequence of the trimmed bodies of the
\* [SHELL] tags in order of appearance and action_commands that of the
\* [ACTION] tags; a body empty after trimming is added to neither.
C14_ExtractionInOrder ==
  flushed => /\ filt.shell_commands = Bodies(stream, OPEN_SHELL)
             /\ filt.action_commands = Bodies(stream, OPEN_ACTION)

(***************************************************************************)
(* Properties of the directive parser                                       *)
(***************************************************************************)
\* the alias table of the directive grammar
AliasTable ==
  << << LAUNCH_APP,
        { << "l", "a", "u", "n", "c", "h", "_", "a", "p", "p" >>,
          << "o", "p", "e", "n", "_", "a", "p", "p" >>,
          << "o", "p", "e", "n" >> } >>,
     << OPEN_URL,
        { << "o", "p", "e", "n", "_", "u", "r", "l" >>,
          << "u", "r", "l" >>,
          << "b", "r", "o", "w", "s", "e" >> } >>,
     << SHELL_COMMAND,
        { << "s", "h", "e", "l", "l" >>,
          << "r", "u", "n" >> } >>,
     << SYSTEM_INFO,
        { << "s", "y", "s", "t", "e", "m", "_", "i", "n", "f", "o" >>,
          << "s", "y", "s", "i", "n", "f", "o" >> } >>,
     << NOTIFICATION,
        { << "n", "o", "t", "i", "f", "y" >>,
          << "n", "o", "t", "i", "f", "i", "c", "a", "t", "i", "o", "n" >> } >> >>

\* the type word of a directive body: the text before the first ':', or the
\* whole body when there is none, trimmed and in lower case
TypeWord(body) ==
  LET c == Strip(body)
      colon == IndexOf(<< ":" >>, c)
  IN Lower(Strip(IF colon = 0 THEN c ELSE SubSeq(c, 1, colon - 1)))

\* the text after the first ':' of a directive body, trimmed
TargetText(body) ==
  LET c == Strip(body)
      colon == IndexOf(<< ":" >>, c)
  IN IF colon = 0 THEN << >> ELSE Strip(SubSeq(c, colon + 1, Len(c)))

Recognized(word) == \E k \in DOMAIN AliasTable : word \in AliasTable[k][2]

\* C15: parse_action_tag maps a body 'type: target' or 'type: target | extra'
\* to an ActionRequest by the alias table; a Notification body is split at
\* the first '|' into the target and one extra argument; a body with an
\* unrecognized type or an empty body gives no request, and such a directive
\* is never passed to execute_action.
C15_ParseByAliasTable ==
  (handled # "new") =>
     LET word == TypeWord(directive)
         text == TargetText(directive)
         bar == IndexOf(<< "|" >>, text)
     IN /\ (parsed = None) <=> (Strip(directive) = << >> \/ ~Recognized(word))
        /\ (parsed # None) =>
              /\ \E k \in DOMAIN AliasTable :
                    /\ word \in AliasTable[k][2]
                    /\ parsed.action_type = AliasTable[k][1]
              /\ IF parsed.action_type = NOTIFICATION /\ bar # 0
                 THEN /\ parsed.target = Strip(SubSeq(text, 1, bar - 1))
                      /\ parsed.args =
                           << Strip(SubSeq(text, bar + 1, Len(text))) >>
                 ELSE /\ parsed.target = text
                      /\ parsed.args = << >>
        /\ (handled = "unknown") =>
              /\ parsed = None
              /\ ncalls = 0
              /\ backend_log = << >>
              /\ audit_log = << >>
        /\ (handled = "executed") =>
              /\ parsed # None
              /\ ncalls = 1
              /\ last.op = "execute_action"
              /\ last.desc = parsed.action_type
              /\ last.target = Text(parsed.target)

C15_Witness ==
  /\ handled = "executed"
  /\ directive = << "n", "o", "t", "i", "f", "i", "c", "a", "t", "i", "o", "n", " ", ":", " ", "H", "e", "l", "l", "o", " ", "|", " ", "W", "o", "r", "l", "d" >>
  /\ parsed.action_type = NOTIFICATION
  /\ parsed.target = << "H", "e", "l", "l", "o" >>
  /\ parsed.args = << << "W", "o", "r", "l", "d" >> >>
  /\ last.backend = 1

(***************************************************************************)
(* Properties of the risk assessment                                        *)
(***************************************************************************)
\* the assessed command matches a pattern of the allowlist it was assessed with
AllowHit == \E i \in DOMAIN last.allowlist :
               AllowlistMatch(last.allowlist[i], last.target)

\* the assessed command contains a string of the blocklist it was assessed with
BlockHit == \E i \in DOMAIN last.blocklist :
               BlocklistMatch(last.blocklist[i], last.target)

\* the risk levels of the rules of the table that match the assessed command
RuleRisks == {RISK_PATTERNS[i].risk : i \in MatchingRules(last.target)}

\* the order Low < Medium < High < Critical
RiskOrder == << LOW, MEDIUM, HIGH, CRITICAL >>

Position(level) == CHOOSE k \in DOMAIN RiskOrder : RiskOrder[k] = level

\* C16: a command that matches both a High-risk rule and an allowlist pattern
\* is assessed Low with reason "Allowlisted": the allowlist match
\* short-circuits the rule table.
C16_AllowlistOverridesRules ==
  (last.op = "assess_command" /\ AllowHit /\ HIGH \in RuleRisks)
    => /\ last.risk = LOW
       /\ last.desc = "Allowlisted"

C16_Witness ==
  /\ last.op = "assess_command"
  /\ last.target = "shutdown /s"
  /\ last.allowlist = << "shutdown" >>
  /\ last.blocklist = << >>
  /\ last.risk = LOW
  /\ last.desc = "Allowlisted"

\* C17: the blocklist is evaluated first: every command that contains a
\* blocklisted string, compared case-insensitively, is assessed Critical, also
\* when it matches an allowlist pattern.
C17_BlocklistFirst ==
  (last.op = "assess_command" /\ BlockHit) => last.risk = CRITICAL

\* C18: when no blocklist or allowlist entry applies, the assessment is the
\* highest-ranked risk level among all matching rules of the table, wherever
\* they stand in it, and Low with the default reason when no rule matches.
C18_HighestRankedMatch ==
  (last.op = "assess_command" /\ ~AllowHit /\ ~BlockHit)
    => /\ last.risk \in RuleRisks \cup {LOW}
       /\ \A r \in RuleRisks : Position(r) <= Position(last.risk)
       /\ (RuleRisks = {}) => last.desc = "No risk patterns matched"

C18_Witness ==
  /\ last.op = "assess_command"
  /\ last.target = "curl http://x; iex $y"
  /\ ~AllowHit
  /\ ~BlockHit
  /\ RuleRisks = {MEDIUM, HIGH}
  /\ last.risk = HIGH

(***************************************************************************)
(* Properties of execute_action                                             *)
(***************************************************************************)
\* the action types without handler
Unsupported == (ActionType \cup {"clipboard"})
               \ {LAUNCH_APP, OPEN_URL, SHELL_COMMAND, SYSTEM_INFO, NOTIFICATION}

\* C19: execute_action on a request whose action type has no handler
\* (FileRead, FileWrite, FileList or an unknown type) returns a failure
\* result without calling any backend operation.
C19_UnsupportedTypeFails ==
  (last.op = "execute_action" /\ last.desc \in Unsupported)
    => /\ ~last.result.success
       /\ last.result.error = "No handler"
       /\ last.backend = 0
       /\ last.confirms = << >>

C19_Witness ==
  /\ last.op = "execute_action"
  /\ last.desc = FILE_WRITE
  /\ ~last.result.success
  /\ ncalls = 2
  /\ Len(backend_log) = 1

(***************************************************************************)
(* Properties of the application registry                                   *)
(***************************************************************************)
UpperChar(ch) ==
  CASE ch = "a" -> "A"
    [] ch = "b" -> "B"
    [] ch = "c" -> "C"
    [] ch = "d" -> "D"
    [] ch = "e" -> "E"
    [] ch = "f" -> "F"
    [] ch = "g" -> "G"
    [] ch = "h" -> "H"
    [] ch = "i" -> "I"
    [] ch = "j" -> "J"
    [] ch = "k" -> "K"
    [] ch = "l" -> "L"
    [] ch = "m" -> "M"
    [] ch = "n" -> "N"
    [] ch = "o" -> "O"
    [] ch = "p" -> "P"
    [] ch = "q" -> "Q"
    [] ch = "r" -> "R"
    [] ch = "s" -> "S"
    [] ch = "t" -> "T"
    [] ch = "u" -> "U"
    [] ch = "v" -> "V"
    [] ch = "w" -> "W"
    [] ch = "x" -> "X"
    [] ch = "y" -> "Y"
    [] ch = "z" -> "Z"
    [] OTHER -> ch

Upper(s) == [i \in 1..Len(s) |-> UpperChar(s[i])]

\* the canonical key and the aliases of an entry, in lower case
NamesOf(e) ==
  {Lower(e.name)} \cup {Lower(e.aliases[i]) : i \in DOMAIN e.aliases}

\* every registered canonical key and alias, in lower case
RegisteredNames == UNION {NamesOf(RegistryFile[i]) : i \in DOMAIN RegistryFile}

\* C20: resolve is case-insensitive and tries the exact match first: for a
\* query whose trimmed, lower-cased form is a registered canonical key or
\* alias, resolve returns the entry of that key or alias, whatever fuzzy
\* candidates exist, and the same entry for every letter-casing of the query.
C20_ExactMatchCaseInsensitive ==
  (resolved.done /\ Lower(Strip(query)) \in RegisteredNames)
    => /\ resolved.entry # NoEntry
       /\ Lower(Strip(query)) \in NamesOf(resolved.entry)
       /\ \A i \in DOMAIN RegistryFile :
             Lower(Strip(query)) \in NamesOf(RegistryFile[i])
               => resolved.entry = RegistryFile[i]
       /\ resolved.entry = resolve(Lower(query))
       /\ resolved.entry = resolve(Upper(query))

C20_Witness ==
  /\ resolved.done
  /\ query = << " ", "N", "O", "T", "E", "P", "A", "D", " " >>
  /\ resolved.entry.name = << "n", "o", "t", "e", "p", "a", "d" >>
  /\ resolved.entry.display_name = "Notepad"

\* the name looked up, as resolve compares it
Looked == Lower(Strip(query))

\* q is the alias a with one character dropped, added or replaced
Misspelling(q, a) ==
  \/ /\ Len(q) = Len(a)
     /\ Cardinality({i \in DOMAIN a : a[i] # q[i]}) = 1
  \/ /\ Len(q) + 1 = Len(a)
     /\ \E i \in DOMAIN a : q = [j \in 1..Len(q) |-> IF j < i THEN a[j] ELSE a[j + 1]]
  \/ /\ Len(q) = Len(a) + 1
     /\ \E i \in DOMAIN q : a = [j \in 1..Len(a) |-> IF j < i THEN q[j] ELSE q[j + 1]]

\* the entries of the registry file that carry the key or alias a
Owners(a) == {RegistryFile[i] : i \in {j \in DOMAIN RegistryFile : a \in NamesOf(RegistryFile[j])}}

\* the name looked up is unrelated to every alias
Unrelated == \A a \in AliasKeys : RatioLess(ratio(a, Looked), cutoff)

\* C21 as stated: an exact alias returns its entry, every 1-character
\* misspelling of a registered alias returns the entry of that alias, and a
\* name scoring below the cutoff against every alias returns not-found.
C21_EveryMisspellingResolves ==
  resolved.done
    => /\ Looked \in AliasKeys => resolved.entry \in Owners(Looked)
       /\ \A a \in AliasKeys :
            (Looked \notin AliasKeys /\ Misspelling(Looked, a))
              => resolved.entry \in Owners(a)
       /\ Unrelated => resolved.entry = NoEntry

\* C21 amended: an exact alias returns its entry; a 1-character misspelling
\* of a registered alias returns the entry of that alias when its similarity
\* to the alias is at least the cutoff and larger than its similarity to
\* every alias of another entry; a name scoring below the cutoff against
\* every alias returns not-found.
C21_CloseMisspellingResolves ==
  resolved.done
    => /\ Looked \in AliasKeys => resolved.entry \in Owners(Looked)
       /\ \A a \in AliasKeys :
            ( /\ Looked \notin AliasKeys
              /\ Misspelling(Looked, a)
              /\ RatioAtLeast(ratio(a, Looked), cutoff)
              /\ \A b \in AliasKeys :
                   Owners(b) # Owners(a) => RatioLess(ratio(b, Looked), ratio(a, Looked)) )
              => resolved.entry \in Owners(a)
       /\ Unrelated => resolved.entry = NoEntry

\* the misspelling "notepa" of "notepad" has been looked up and found
C21_Witness ==
  /\ resolved.done
  /\ Looked \notin AliasKeys
  /\ Len(Looked) = 6
  /\ Misspelling(Looked, << "n", "o", "t", "e", "p", "a", "d" >>)
  /\ resolved.entry.display_name = "Notepad"

\* the entry of the loaded file that registered the name a first
FirstOwner(a) ==
  LET at == {i \in DOMAIN registry : a \in NamesOf(registry[i])}
  IN registry[CHOOSE i \in at : \A j \in at : i <= j]

\* C22: a later entry does not replace the mapping of a canonical key or alias
\* (lower-cased) that an earlier entry registered: every registered name
\* resolves to the entry that registered it first.
C22_FirstRegistrationWins ==
  (resolved.done /\ Looked \in AliasKeys) => resolved.entry = FirstOwner(Looked)

\* the last n elements of the sequence s, all of s when it has fewer
LastOf(s, n) == IF Len(s) <= n THEN s ELSE SubSeq(s, Len(s) - n + 1, Len(s))

\* C23: after any sequence of log_action calls the in-memory trail holds at
\* most 200 entries, namely the most recently appended ones in the order of
\* their appending, and get_audit_log returns a tail of the trail that ends
\* with the most recent entry.
C23_TrailKeepsMostRecent ==
  /\ Len(audit_log) <= max_audit
  /\ audit_log = LastOf(logged, max_audit)
  /\ last.op = "get_audit_log"
       => /\ \E n \in 0..Len(audit_log) : last.audits = LastOf(audit_log, n)
          /\ audit_log # << >>
               => /\ last.audits # << >>
                  /\ last.audits[Len(last.audits)] = logged[Len(logged)]

\* the trail has dropped its two oldest entries and the latest twenty have
\* been read
C23_Witness ==
  /\ Len(logged) = max_audit + 2
  /\ Len(audit_log) = max_audit
  /\ audit_log[1] = logged[3]
  /\ last.op = "get_audit_log"
  /\ Len(last.audits) = 20
  /\ last.audits[20] = logged[Len(logged)]

\* what a router call leaves behind apart from the durable file
Outcome(r) ==
  [result |-> r.result, log |-> r.env.log, backend |-> r.env.backend,
   confirm |-> r.env.confirm, audits |-> r.env.audits]

\* C24: a failing append to the durable audit log changes neither the
\* in-memory trail nor the outcome: from every state, execute_shell and
\* execute_action return the same result and leave the same trail, backend
\* calls and confirmations whether the append fails or succeeds, and after a
\* call every entry it audited is at the end of the in-memory trail.
C24_DurableFailureHarmless ==
  /\ \A command \in DurableCommands, from_llm \in BOOLEAN, answer \in BOOLEAN,
        outcome \in BackendOutcomes :
        Outcome(execute_shell(Env, command, from_llm, answer, outcome, FALSE))
          = Outcome(execute_shell(Env, command, from_llm, answer, outcome, TRUE))
  /\ \A request \in DurableRequests, answer \in BOOLEAN,
        outcome \in BackendOutcomes :
        Outcome(execute_action(Env, request, answer, outcome, FALSE))
          = Outcome(execute_action(Env, request, answer, outcome, TRUE))
  /\ last.op \in {"execute_shell", "execute_action"}
       => LastOf(audit_log, Len(last.audits)) = last.audits

\* an approved command ran and was audited in memory although no record of it
\* reached the durable file
C24_Witness ==
  /\ last.op = "execute_shell"
  /\ last.target = "shutdown /s"
  /\ last.result.success
  /\ Len(last.audits) = 1
  /\ audit_log = last.audits
  /\ audit_file = << >>

\* no command thread is inside a call
Quiescent == \A t \in Threads : thread[t].pc = "idle"

\* C25: with log_action running in several threads, no appended entry is lost
\* or duplicated and the trail stays within its capacity: whenever no call is
\* in progress the trail is exactly the most recent (at most 200) entries
\* appended, in the order of their appending, and the durable file holds
\* every entry once.
C25_ConcurrentTrailExact ==
  Quiescent
    => /\ Len(audit_log) <= max_audit
       /\ audit_log = LastOf(logged, max_audit)
       /\ \A e \in Range(logged) : Cardinality({i \in DOMAIN audit_file : audit_file[i] = e}) = 1

\* the calls admitted (answered not rate-limited) in the window starting at time w
AdmittedIn(w) ==
  {i \in DOMAIN rate_history :
     /\ ~rate_history[i].limited
     /\ rate_history[i].t >= w
     /\ rate_history[i].t - w < RATE_WINDOW}

\* C26: with should_block running in several threads, no more than 5 calls
\* are admitted within any 10-second window.
C26_ConcurrentWindowHolds ==
  \A i \in DOMAIN rate_history :
     Cardinality(AdmittedIn(rate_history[i].t)) <= RATE_LIMIT

\* the user has approved the request of thread t
ApprovedFor(t) ==
  \E i \in DOMAIN delivered : delivered[i].thread = t /\ delivered[i].approved

\* the backend has run the command of thread t
ReachedBackend(t) ==
  \E i \in DOMAIN backend_log :
     backend_log[i].op = "run_shell" /\ backend_log[i].arg = ConfirmCommand(t)

\* C27: the handoff is one-shot per request: a command's confirmation
\* callback returns true only if the user approved that very command, and a
\* High-risk command reaches the backend only on its own approval.
C27_OneShotPerRequest ==
  \A t \in Threads :
     /\ (thread[t].pc = "returned" /\ thread[t].approved) => ApprovedFor(t)
     /\ ReachedBackend(t) => ApprovedFor(t)

\* thread t has sent its confirmation request
Requested(t) == thread[t].pc \in {"wait", "blocked", "read", "returned"}

\* the UI has delivered a decision for the request of thread t
ResolvedFor(t) == \E i \in DOMAIN delivered : delivered[i].thread = t

\* C28: a confirmation request that has not been resolved keeps its command
\* blocked in the callback, and the command does not reach the backend while
\* its request is unresolved.
C28_UnresolvedStaysBlocked ==
  \A t \in Threads :
     (Requested(t) /\ ~ResolvedFor(t))
       => /\ thread[t].pc \in {"wait", "blocked"}
          /\ ~ReachedBackend(t)

\* C30: the router never throws for expected conditions: every execute_shell
\* and execute_action call returns a structured result with a success flag
\* and a non-empty human-readable message, whether the command was blocked,
\* denied, of an unsupported type, failed in the backend or succeeded.
C30_AlwaysStructuredResult ==
  last.op \in {"execute_shell", "execute_action"}
    => /\ last.result.success \in BOOLEAN
       /\ last.result.message # ""
       /\ last.result # NoResult

\* a backend operation was called and failed, and the router returned its
\* failure result
C30_Witness ==
  /\ last.op = "execute_action"
  /\ last.desc = LAUNCH_APP
  /\ last.backend = 1
  /\ ~last.result.success
  /\ last.result.message = "failed"

\* C29: when a shell command exceeds its timeout, its process has been
\* terminated when run_shell returns, the result has success = false and
\* timed_out = true, and execute_shell returns that result and audits the
\* command with outcome 'failure'; no call returns while its process runs.
C29_TimeoutTerminatesAndFails ==
  \A t \in Threads :
     thread[t].pc = "returned"
       => /\ thread[t].child # "running"
          /\ thread[t].outcome = "timeout"
               => /\ thread[t].child = "killed"
                  /\ ~thread[t].result.success
                  /\ thread[t].result.timed_out
                  /\ Len(thread[t].audits) = 1
                  /\ thread[t].audits[1].outcome = "failure"
                  /\ thread[t].audits[1].target = thread[t].command
                  /\ thread[t].audits[1] \in Range(audit_log)

\* an approved High-risk command has timed out
C29_Witness ==
  \E t \in Threads :
     /\ thread[t].pc = "returned"
     /\ thread[t].command = "shutdown /s"
     /\ thread[t].outcome = "timeout"
     /\ thread[t].child = "killed"
     /\ thread[t].result.timed_out
     /\ audit_log # << >>
     /\ audit_log[Len(audit_log)].outcome = "failure"

\* C37: for every limit >= 0, get_audit_log(limit) returns at most limit
\* entries, namely the last min(limit, size) entries of the in-memory trail
\* in append order; get_audit_log(0) returns no entry.
C37_AtMostLimitEntries ==
  last.op = "get_audit_log"
    => /\ Len(last.audits) <= last.limit
       /\ last.audits = LastOf(audit_log, last.limit)

\* C33: execute_action audits every dispatch with the effective risk: the
\* risk level of the handler's result when the handler supplied one, otherwise
\* the assess_action default of the request's action type.  (The results that
\* carry no risk of their own are those of a run that timed out; last.desc is
\* the request's action type.)
C33_AuditsEffectiveRisk ==
  (last.op = "execute_action" /\ last.audits # << >>)
    => last.audits[Len(last.audits)].risk
         = IF last.result.timed_out
           THEN assess_action(last.desc)
           ELSE last.result.risk_level

\* C38: the streaming and the non-streaming path extract the same commands:
\* for every complete response text, fed in any fragmentation and flushed,
\* the directives and commands taken from the filter equal, after trimming
\* and dropping empty bodies, those the regular expressions find in the whole
\* text.
C38_BothPathsExtractTheSame ==
  flushed => dispatched = DispatchOrder(extract(stream))

C39_AssessedIsExecuted ==
  (last.op = "_execute_shell" /\ last.routed)
    => /\ last.target = IF orch.wsl_mode THEN "wsl -- " \o last.given
                        ELSE last.given
       /\ Len(last.audits) = 1
       /\ last.audits[1].target = last.target
       /\ last.audits[1].risk = assess_command(last.target).risk
       /\ last.run_shell = 1
            => backend_log[Len(backend_log)].arg = last.target
       /\ last.run_shell = last.backend
       /\ \A i \in DOMAIN last.confirms :
             (i > 1 \/ ~orch.confirmation_mode)
               => last.confirms[i].command = last.target
       /\ orch.wsl_mode => assess_command(last.target).risk \in {HIGH, CRITICAL}

\* in WSL mode a command that is harmless as typed was confirmed and run with
\* its prefix
C39_Witness ==
  /\ last.op = "_execute_shell"
  /\ orch.wsl_mode
  /\ last.given = "echo hello"
  /\ last.run_shell = 1
  /\ backend_log[Len(backend_log)].arg = "wsl -- echo hello"
  /\ last.confirms # << >>
  /\ last.confirms[Len(last.confirms)].command = "wsl -- echo hello"

\* the orders in which one execute_shell call may do its steps
PipelineOrders ==
  { << "assess", "audit", "return" >>,
    << "assess", "confirm", "audit", "return" >>,
    << "assess", "confirm", "run_shell", "ran", "audit", "return" >>,
    << "assess", "run_shell", "ran", "audit", "return" >> }

IsPrefix(a, b) == Len(a) <= Len(b) /\ SubSeq(b, 1, Len(a)) = a

InCall(t) == thread[t].pc \notin {"idle"}

\* C32: execute_shell is a strictly short-circuiting pipeline in the order
\* block check, confirmation, dispatch, audit: for a Critical command the
\* callback is never invoked and the backend never called; the callback is
\* invoked at most once per call, with the command text, and before any
\* backend call; the audit entry of an executed command is appended after
\* the backend returned and before execute_shell returns.
C32_ShortCircuitPipeline ==
  \A t \in Threads :
     InCall(t)
       => /\ \E o \in PipelineOrders : IsPrefix(thread[t].events, o)
          /\ thread[t].risk = CRITICAL
               => IsPrefix(thread[t].events, << "assess", "audit", "return" >>)
          /\ Len(thread[t].asked) <= 1
          /\ \A i \in DOMAIN thread[t].asked :
                thread[t].asked[i] = thread[t].command
          /\ thread[t].pc = "returned"
               => /\ thread[t].events \in PipelineOrders
                  /\ Len(thread[t].audits) = 1
                  /\ thread[t].audits[1] \in Range(audit_log)
          /\ thread[t].pc \in {"running", "ran"}
               => thread[t].audits = << >>

\* an approved High-risk command went through all four stages
C32_Witness ==
  \E t \in Threads :
     /\ InCall(t)
     /\ thread[t].pc = "returned"
     /\ thread[t].risk = HIGH
     /\ thread[t].events
          = << "assess", "confirm", "run_shell", "ran", "audit", "return" >>

(***************************************************************************)
(* Properties of a request processed by the Orchestrator                    *)
(***************************************************************************)
Dispatches == {"action", "shell", "recover"}

\* C34: in the streaming path no extracted command is dispatched while the
\* response is still streaming: every call of execute_action or
\* execute_shell for a command of a streamed response happens after the last
\* fragment was fed and flush was called.
C34_DispatchAfterStreamEnds ==
  /\ \A i \in DOMAIN orch.events :
        orch.events[i].ev \in Dispatches => orch.events[i].complete
  /\ orch.pc = "streaming" => orch.action_commands = << >>
                               /\ orch.shell_commands = << >>

\* a command was dispatched from a response that arrived in several tokens
C34_Witness ==
  /\ orch.pc = "dispatch"
  /\ Len(stream) > 2 * MaxToken
  /\ \E i \in DOMAIN orch.events :
        /\ orch.events[i].ev = "shell"
        /\ orch.events[i].depth = orch.depth
        /\ orch.events[i].complete

\* C35: when a streamed response is abandoned mid-stream (its producer fails
\* before the response is complete), its filter is discarded and not
\* completed: no command extracted from that response, not even one from a
\* tag closed before the failure, is dispatched to the router.
C35_AbandonedDispatchesNothing ==
  \A i \in DOMAIN orch.events :
     orch.events[i].ev \in Dispatches => ~orch.events[i].abandoned

Begun == Len(SelectSeq(orch.events, LAMBDA e : e.ev = "begin"))

RecoveryBounded ==
  orch.pc # "none"
    => /\ orch.depth <= 2
       /\ Len(orch.stack) = orch.depth
       /\ Begun <= 7
       /\ Len(orch.events) <= 7 * 8
       /\ pos <= Len(stream)
       /\ \A i \in DOMAIN orch.events :
             orch.events[i].ev = "recover"
               => /\ orch.events[i].depth < 2
                  /\ is_error(orch.events[i].out)
       /\ \A i \in DOMAIN orch.events :
             (orch.events[i].ev \in {"shell", "recover"}
              /\ assess_command(Text(orch.events[i].body)).risk = CRITICAL)
               => orch.events[i].out = "Blocked dangerous command"
       /\ \A k \in DOMAIN backend_log :
             backend_log[k].op = "run_shell"
               => assess_command(backend_log[k].arg).risk # CRITICAL

\* a step of the request: one more thing done, or one more token consumed
Advances ==
  \/ Len(orch.events') > Len(orch.events)
  \/ Len(orch.events') = Len(orch.events) /\ pos' > pos

FrameEnd(i) ==
  LET returns == {j \in (i + 1)..Len(orch.events) :
                    /\ orch.events[j].ev = "return"
                    /\ orch.events[j].depth = orch.events[i].depth}
  IN IF returns = {} THEN Len(orch.events) + 1
     ELSE CHOOSE j \in returns : \A k \in returns : j <= k

\* what that call has dispatched, in order
FrameSteps(i) ==
  SelectSeq(SubSeq(orch.events, i + 1, FrameEnd(i) - 1),
            LAMBDA e : /\ e.depth = orch.events[i].depth
                       /\ e.ev \in Dispatches \cup {"unknown"})

Bodies2(steps, kinds) ==
  LET sel == SelectSeq(steps, LAMBDA e : e.ev \in kinds)
  IN [k \in DOMAIN sel |-> sel[k].body]

\* C40: for one response the orchestrator dispatches all extracted [ACTION]
\* directives, in their order of appearance, before any extracted [SHELL]
\* command, in their order of appearance, whatever the interleaving of the
\* two kinds in the response; a directive or command that is blocked, denied
\* or fails does not stop the later ones from being dispatched.
C40_ActionsThenShellsInOrder ==
  \A i \in DOMAIN orch.events :
     orch.events[i].ev = "flush"
       => LET steps == FrameSteps(i)
              acts == Bodies2(steps, {"action", "unknown"})
              shs == Bodies2(steps, {"shell", "recover"})
              found == orch.events[i].body
          IN /\ steps = SelectSeq(steps, LAMBDA e : e.ev \in {"action", "unknown"})
                        \o SelectSeq(steps, LAMBDA e : e.ev \in {"shell", "recover"})
             /\ IsPrefix(acts, found.action_commands)
             /\ IsPrefix(shs, found.shell_commands)
             /\ FrameEnd(i) <= Len(orch.events)
                  => /\ acts = found.action_commands
                     /\ shs = found.shell_commands

\* the interleaved response was processed to its end although a directive
\* failed, a directive was unknown, a command was denied and a command was
\* blocked
C40_Witness ==
  /\ orch.pc = "done"
  /\ \E i \in DOMAIN orch.events :
        /\ orch.events[i].ev = "flush"
        /\ orch.events[i].depth = 0
        /\ Len(orch.events[i].body.action_commands) = 3
        /\ Len(orch.events[i].body.shell_commands) = 2
        /\ Len(FrameSteps(i)) = 5
        /\ FrameSteps(i)[1].out = "failed"
        /\ FrameSteps(i)[2].ev = "unknown"
        /\ FrameSteps(i)[4].out = "Command cancelled (requires confirmation)"
        /\ FrameSteps(i)[5].out = "Blocked dangerous command"

====
